---- MODULE Spec2Model ----
(***************************************************************************)
(* kilomoco: profile registry (config.py), configuration application and   *)
(* instance reconciliation (vscode.py) and the launcher (launcher.py).     *)
(*                                                                         *)
(* Representation of text.  A mode name or a settings key is a sequence of *)
(* tokens: the token "." stands for one dot, every other token for a       *)
(* maximal run of characters without a dot ("a.b" is <<"a", ".", "b">>,    *)
(* "kilo-code..model" is <<"kilo-code", ".", ".", "model">>).  Profile     *)
(* ids, names, descriptions and model identifiers are never taken apart by *)
(* the code and are plain strings.                                         *)
(***************************************************************************)
EXTENDS Integers, Sequences, FiniteSets, TLC

VARIABLES fs, pc, call, locals, result, warnings, tmp, launches

vars == <<fs, pc, call, locals, result, warnings, tmp, launches>>

(***************************************************************************)
(* Bounds                                                                  *)
(***************************************************************************)
MaxFiles == 2

MaxTempDirs == 1

MaxProcs == 2

MaxLaunches == 1

(***************************************************************************)
(* Generic helpers                                                         *)
(***************************************************************************)
EmptyMap == [x \in {} |-> x]

SeqRange(s) == {s[i] : i \in 1..Len(s)}

Perms(S) == {s \in [1..Cardinality(S) -> S] : \A i, j \in 1..Cardinality(S) : s[i] = s[j] => i = j}

(***************************************************************************)
(* Profiles and the ordered mapping (a Python dict keeps insertion order)  *)
(***************************************************************************)
ModeCombinationProfile(id, name, description, modes) ==
    [id |-> id, name |-> name, description |-> description, modes |-> modes]

DictKeys(d) == {d[i].key : i \in 1..Len(d)}

DictGet(d, k) == (CHOOSE i \in 1..Len(d) : d[i].key = k)

DictValue(d, k) == d[DictGet(d, k)].value

\* d[k] = v: an existing key keeps its position, a new key goes last
DictSet(d, k, v) ==
    IF k \in DictKeys(d)
    THEN [d EXCEPT ![DictGet(d, k)] = [key |-> k, value |-> v]]
    ELSE Append(d, [key |-> k, value |-> v])

RECURSIVE DictUpdateKeepExisting(_, _)
\* mutant of DictUpdate: a key already present keeps its value (setdefault)
DictUpdateKeepExisting(d, other) ==
    IF other = <<>> THEN d
    ELSE DictUpdateKeepExisting(
             IF Head(other).key \in DictKeys(d) THEN d
             ELSE Append(d, Head(other)), Tail(other))

RECURSIVE DictUpdate(_, _)
\* d.update(other)
DictUpdate(d, other) ==
    IF other = <<>> THEN d
    ELSE DictUpdate(DictSet(d, Head(other).key, Head(other).value), Tail(other))

(***************************************************************************)
(* Text helpers (token sequences, see the module comment)                  *)
(***************************************************************************)
Dot == "."

\* str.startswith
StartsWith(s, prefix) == Len(s) >= Len(prefix) /\ SubSeq(s, 1, Len(prefix)) = prefix

\* str.endswith
EndsWith(s, suffix) ==
    Len(s) >= Len(suffix) /\ SubSeq(s, Len(s) - Len(suffix) + 1, Len(s)) = suffix

\* positions of the dots of s
DotPositions(s) == {i \in 1..Len(s) : s[i] = Dot}

\* the i-th dot of s, or Len(s) + 1 when s has fewer dots
NthDot(s, n) ==
    IF Cardinality(DotPositions(s)) < n THEN Len(s) + 1
    ELSE CHOOSE i \in DotPositions(s) : Cardinality({j \in DotPositions(s) : j < i}) = n - 1

\* s.split('.', 2)[1] for an s with at least one dot: the text between the first
\* dot and the second dot (or the end of s)
SplitSecond(s) == SubSeq(s, NthDot(s, 1) + 1, NthDot(s, 2) - 1)

(***************************************************************************)
(* Profile documents: what yaml.safe_load makes of a file                  *)
(***************************************************************************)
\* a value of the document's `modes` key: a mapping, or something else
ModesMap(m) == [isdict |-> TRUE, map |-> m]

ModesOther == [isdict |-> FALSE, map |-> EmptyMap]

\* reading or parsing the file raises
DocUnparsable == [kind |-> "error", data |-> EmptyMap]

\* the file parses to a list, a scalar or None
DocNotMapping == [kind |-> "other", data |-> EmptyMap]

DocMapping(data) == [kind |-> "dict", data |-> data]

ModesLoprTest == (<<"default">> :> "llama-4-maverick") @@ (<<"orchestrator">> :> "deepseek-v3.2-exp")

ModesTestModel == (<<"default">> :> "test-model")

ModesValidModel == (<<"default">> :> "valid-model")

ModesDotted == (<<"a", Dot, "b">> :> "gpt-5")

\* test_invalid_yaml_is_skipped: id and name, no modes
DocNoModes == DocMapping(("id" :> "invalid") @@ ("name" :> "Invalid Profile"))

\* modes present, not a mapping
DocBadModes == DocMapping(("id" :> "lopr") @@ ("modes" :> ModesOther))

\* test_load_profiles_from_dir_success
DocLopr ==
    DocMapping(("id" :> "lopr") @@ ("name" :> "Low-Price (Economy)")
               @@ ("description" :> "Budget-friendly...") @@ ("modes" :> ModesMap(ModesLoprTest)))

\* same id, other name, no description, other modes
DocLoprOther ==
    DocMapping(("id" :> "lopr") @@ ("name" :> "Test Profile") @@ ("modes" :> ModesMap(ModesTestModel)))

\* modes only: id and name come from the file name
DocModesOnly == DocMapping(("modes" :> ModesMap(ModesValidModel)))

\* same modes as DocLopr under another id
DocCopr ==
    DocMapping(("id" :> "copr") @@ ("description" :> "Agentic") @@ ("modes" :> ModesMap(ModesLoprTest)))

\* a mode name holding a dot
DocDotted == DocMapping(("id" :> "dotted") @@ ("modes" :> ModesMap(ModesDotted)))

\* no modes at all: legal but degenerate
DocNoMode == DocMapping(("id" :> "nomode") @@ ("modes" :> ModesMap(EmptyMap)))

InvalidDocs == {DocUnparsable, DocNotMapping, DocNoModes, DocBadModes}

(***************************************************************************)
(* The profile directories                                                 *)
(***************************************************************************)
\* "env": the directory KILOMOCO_PROFILES_DIR names, "cwd": <cwd>/profiles,
\* "home": ~/.kilomoco/profiles
Dirs == {"env", "cwd", "home"}

\* the file names a profile directory may hold: stem and extension
FileNames == {<<"lopr", "yml">>, <<"custom", "yml">>, <<"lopr", "yaml">>}

File(stem, ext, doc) == [stem |-> stem, ext |-> ext, doc |-> doc]

NoDir == [exists |-> FALSE, files |-> {}]

FileCount(f) == Cardinality(UNION {{<<d, x.stem, x.ext>> : x \in f[d].files} : d \in Dirs})

(***************************************************************************)
(* config.py                                                               *)
(***************************************************************************)
\* the document passes the check of line 202 (and of line 222)
IsValidDoc(doc) ==
    /\ doc.kind = "dict"
    /\ "modes" \in DOMAIN doc.data
    /\ doc.data["modes"].isdict

\* dict.get(key, default)
Get(data, k, default) == IF k \in DOMAIN data THEN data[k] ELSE default

\* mutant of ProfileId: the id is the file name, whatever the document says
ProfileIdFromStem(file) == file.stem

\* line 206
ProfileId(file) == Get(file.doc.data, "id", file.stem)

\* lines 206-212
ProfileOfFile(file) ==
    ModeCombinationProfile(ProfileId(file),
                           Get(file.doc.data, "name", ProfileId(file)),
                           Get(file.doc.data, "description", ""),
                           file.doc.data["modes"].map)

WarnError(file) == [text |-> "Error loading profile from", stem |-> file.stem, ext |-> file.ext]

WarnSkip(file) == [text |-> "Skipping invalid profile file", stem |-> file.stem, ext |-> file.ext]

\* the body of the try block for one file (lines 201-213): the exception it
\* raises, or the profile it stores, or the warning of the invalid branch
TryLoadFile(file) ==
    IF file.doc.kind = "error"
    THEN [exc |-> "Exception", warn |-> <<>>, store |-> <<>>]
    ELSE IF ~IsValidDoc(file.doc)
    THEN [exc |-> "none", warn |-> <<WarnSkip(file)>>, store |-> <<>>]
    ELSE [exc |-> "none", warn |-> <<>>, store |-> <<ProfileOfFile(file)>>]

\* mutant of LoadFile: no except clause, the exception leaves the function
LoadFileNoCatch(acc, file) ==
    LET t == TryLoadFile(file)
    IN IF t.exc # "none"
       THEN [acc EXCEPT !.raised = t.exc]
       ELSE [acc EXCEPT !.warned = @ \o t.warn,
                        !.profiles = IF t.store = <<>> THEN @
                                     ELSE DictSet(@, t.store[1].id, t.store[1])]

\* mutant of LoadFile: the profile is stored under the name of its file
LoadFileKeyedByStem(acc, file) ==
    LET t == TryLoadFile(file)
    IN IF t.exc # "none"
       THEN [acc EXCEPT !.warned = Append(@, WarnError(file))]
       ELSE [acc EXCEPT !.warned = @ \o t.warn,
                        !.profiles = IF t.store = <<>> THEN @
                                     ELSE DictSet(@, file.stem, t.store[1])]

\* one iteration of the loops of load_profiles_from_dir, with its except
\* clause (lines 214-216); acc holds profiles, the warnings emitted so far and
\* the exception that left the function, if any
LoadFile(acc, file) ==
    LET t == TryLoadFile(file)
    IN IF t.exc # "none"
       THEN [acc EXCEPT !.warned = Append(@, WarnError(file))]
       ELSE [acc EXCEPT !.warned = @ \o t.warn,
                        !.profiles = IF t.store = <<>> THEN @
                                     ELSE DictSet(@, t.store[1].id, t.store[1])]

RECURSIVE LoadFiles(_, _)
LoadFiles(acc, files) ==
    IF files = <<>> \/ acc.raised # "none" THEN acc
    ELSE LoadFiles(LoadFile(acc, Head(files)), Tail(files))

\* the orders in which the two globs of one scan can list the files of a
\* directory: every *.yml file before every *.yaml file, each group in the
\* order the file system happens to give
GlobOrders(files) ==
    {yml \o yaml : yml \in Perms({f \in files : f.ext = "yml"}),
                   yaml \in Perms({f \in files : f.ext = "yaml"})}

\* load_profiles_from_dir, the files listed in the order `listing`
load_profiles_from_dir(listing) ==
    LoadFiles([profiles |-> <<>>, warned |-> <<>>, raised |-> "none"], listing)

\* mutant of profiles_dir_candidates: <cwd>/profiles is looked at first
profiles_dir_candidates_cwd_first(f) ==
    (IF f["cwd"].exists THEN <<"cwd">> ELSE <<>>)
    \o (IF f["env"].exists THEN <<"env">> ELSE <<>>)
    \o (IF f["home"].exists THEN <<"home">> ELSE <<>>)

\* profiles_dir_candidates; fs["env"] is the path KILOMOCO_PROFILES_DIR names,
\* which does not exist when the variable is unset or empty
profiles_dir_candidates(f) ==
    (IF f["env"].exists THEN <<"env">> ELSE <<>>)
    \o (IF f["cwd"].exists THEN <<"cwd">> ELSE <<>>)
    \o (IF f["home"].exists THEN <<"home">> ELSE <<>>)

\* one listing per directory
Listings(f) == {l \in [Dirs -> UNION {GlobOrders(f[d].files) : d \in Dirs}] :
                   \A d \in Dirs : l[d] \in GlobOrders(f[d].files)}

RECURSIVE DiscoverFrom(_, _, _)
\* the loop of discover_profiles over the candidates still to visit; acc holds
\* all_profiles, the warnings and the dir_profiles loaded so far
DiscoverFrom(acc, candidates, listing) ==
    IF candidates = <<>> \/ acc.raised # "none" THEN acc
    ELSE LET loaded == load_profiles_from_dir(listing[Head(candidates)])
         IN DiscoverFrom([profiles |-> DictUpdate(acc.profiles, loaded.profiles),
                          warned |-> acc.warned \o loaded.warned,
                          raised |-> loaded.raised,
                          loaded |-> Append(acc.loaded, [dir |-> Head(candidates), profiles |-> loaded.profiles])],
                         Tail(candidates), listing)

\* mutant of discover_profiles: the directories are scanned once, when the
\* program starts and none of them exists, and that result is kept
discover_profiles_once(f, listing) ==
    [profiles |-> <<>>, warned |-> <<>>, raised |-> "none", loaded |-> <<>>]

\* discover_profiles (lines 241-252)
discover_profiles(f, listing) ==
    DiscoverFrom([profiles |-> <<>>, warned |-> <<>>, raised |-> "none", loaded |-> <<>>],
                 profiles_dir_candidates(f), listing)

(***************************************************************************)
(* The built-in table of default_profiles (config.py lines 27-140)         *)
(***************************************************************************)
Builtin_lopr ==
    [key |-> "lopr",
     value |-> ModeCombinationProfile("lopr", "Low-Price (Economy)",
        "Budget-friendly model combinations for cost-conscious usage",
        (<<"default">> :> "llama-4-maverick") @@ (<<"orchestrator">> :> "deepseek-v3.2-exp") @@ (<<"architect">> :> "minimax-m2") @@ (<<"code">> :> "minimax-m2") @@ (<<"debug">> :> "deepseek-v3.1-terminus") @@ (<<"ask">> :> "llama-4-maverick") @@ (<<"administrator">> :> "deepseek-v3.2-exp"))]

Builtin_copr ==
    [key |-> "copr",
     value |-> ModeCombinationProfile("copr", "Complex-Programming (Agentic Coding)",
        "Optimized for complex programming tasks and agentic workflows",
        (<<"default">> :> "gpt-5-mini") @@ (<<"orchestrator">> :> "claude-sonnet-4.5") @@ (<<"architect">> :> "gemini-2.5-pro") @@ (<<"code">> :> "qwen3-coder") @@ (<<"debug">> :> "claude-haiku-4.5") @@ (<<"ask">> :> "glm-4.6") @@ (<<"administrator">> :> "glm-4.6"))]

Builtin_hiq ==
    [key |-> "hiq",
     value |-> ModeCombinationProfile("hiq", "High-Quality (Premium)",
        "Premium models for highest quality output",
        (<<"default">> :> "gemini-2.5-pro") @@ (<<"orchestrator">> :> "claude-sonnet-4.5") @@ (<<"architect">> :> "gpt-5") @@ (<<"code">> :> "claude-sonnet-4.5") @@ (<<"debug">> :> "claude-sonnet-4.5") @@ (<<"ask">> :> "gemini-2.5-pro") @@ (<<"administrator">> :> "gpt-5"))]

Builtin_bas ==
    [key |-> "bas",
     value |-> ModeCombinationProfile("bas", "Balanced-Speed (speed)",
        "Balanced performance with good speed",
        (<<"default">> :> "grok-code-fast-1") @@ (<<"orchestrator">> :> "gemini-2.5-flash") @@ (<<"architect">> :> "gpt-5-mini") @@ (<<"code">> :> "grok-code-fast-1") @@ (<<"debug">> :> "gemini-2.5-flash") @@ (<<"ask">> :> "grok-code-fast-1") @@ (<<"administrator">> :> "gemini-2.5-flash"))]

Builtin_res ==
    [key |-> "res",
     value |-> ModeCombinationProfile("res", "Repository-Scale (big codebases)",
        "Optimized for large codebases and repository-scale tasks",
        (<<"default">> :> "gemini-2.5-flash") @@ (<<"orchestrator">> :> "gemini-2.5-pro") @@ (<<"architect">> :> "qwen3-max") @@ (<<"code">> :> "qwen3-coder") @@ (<<"debug">> :> "glm-4.6") @@ (<<"ask">> :> "llama-4-maverick") @@ (<<"administrator">> :> "qwen3-max"))]

Builtin_ags ==
    [key |-> "ags",
     value |-> ModeCombinationProfile("ags", "Agent-Specialist (Autonome Workflows)",
        "Specialized for autonomous workflows and agent operations",
        (<<"default">> :> "minimax-m2") @@ (<<"orchestrator">> :> "claude-sonnet-4.5") @@ (<<"architect">> :> "deepseek-v3.1-terminus") @@ (<<"code">> :> "glm-4.6") @@ (<<"debug">> :> "claude-haiku-4.5") @@ (<<"ask">> :> "gpt-5-mini") @@ (<<"administrator">> :> "deepseek-v3.1-terminus"))]

Builtin_refo ==
    [key |-> "refo",
     value |-> ModeCombinationProfile("refo", "Research-Focused (analyse & science)",
        "Optimized for research, analysis, and scientific tasks",
        (<<"default">> :> "qwen3-max") @@ (<<"orchestrator">> :> "gemini-2.5-pro") @@ (<<"architect">> :> "gpt-5") @@ (<<"code">> :> "mistral-large") @@ (<<"debug">> :> "claude-sonnet-4.5") @@ (<<"ask">> :> "gemini-2.5-flash") @@ (<<"administrator">> :> "mistral-large"))]

Builtin_buco ==
    [key |-> "buco",
     value |-> ModeCombinationProfile("buco", "Budget-Conscious-Pro (budget and efficiency)",
        "Professional quality with budget consciousness",
        (<<"default">> :> "gemini-2.5-flash") @@ (<<"orchestrator">> :> "gpt-5-mini") @@ (<<"architect">> :> "qwen3-coder") @@ (<<"code">> :> "grok-code-fast-1") @@ (<<"debug">> :> "claude-haiku-4.5") @@ (<<"ask">> :> "deepseek-v3.2-exp") @@ (<<"administrator">> :> "minimax-m2"))]

BuiltinProfiles == <<Builtin_lopr, Builtin_copr, Builtin_hiq, Builtin_bas, Builtin_res, Builtin_ags, Builtin_refo, Builtin_buco>>

\* mutant of default_profiles: no fallback to the built-in table
default_profiles_no_fallback(discovered) == discovered

\* mutant of default_profiles: the discovered profiles are laid over the table
default_profiles_overlay(discovered) == DictUpdate(BuiltinProfiles, discovered)

\* default_profiles, given what discover_profiles returned
default_profiles(discovered) == IF discovered # <<>> THEN discovered ELSE BuiltinProfiles

(***************************************************************************)
(* Calls and their outcomes                                                *)
(***************************************************************************)
NoCall == [op |-> "none", arg |-> <<>>]

NoLocals ==
    [profiles |-> <<>>, loaded |-> <<>>, profile |-> <<>>, settings |-> EmptyMap,
     kilo_settings |-> EmptyMap, temp_dir |-> 0, launch_error |-> "none",
     instances |-> <<>>, inspected |-> 0]

NoResult == [outcome |-> "none", value |-> <<>>, exc |-> "none"]

Returned(v) == [outcome |-> "return", value |-> v, exc |-> "none"]

Raised(e, detail) == [outcome |-> "raise", value |-> detail, exc |-> e]

(***************************************************************************)
(* vscode.py: settings files                                               *)
(***************************************************************************)
\* what a settings.json (or settings.tmp) path holds
NoFile == [kind |-> "missing", members |-> EmptyMap]

\* opened for writing, nothing written yet
EmptyFile == [kind |-> "empty", members |-> EmptyMap]

\* a proper prefix of the JSON text of `data`
PartialJson(data) == [kind |-> "partial", members |-> data]

\* the complete text json.dump writes for `data`
JsonObject(data) == [kind |-> "object", members |-> data]

\* a JSON document that is not an object (an array, a number, a string, null)
JsonArray == [kind |-> "array", members |-> EmptyMap]

\* text that is no JSON
NotJson == [kind |-> "garbage", members |-> EmptyMap]

\* bytes that are no UTF-8 text
NotUtf8 == [kind |-> "notutf8", members |-> EmptyMap]

\* a file (or directory) that exists and cannot be opened for reading
Unreadable == [kind |-> "unreadable", members |-> EmptyMap]

KiloPrefix == <<"kilo-code", Dot>>

ModelSuffix == <<Dot, "model">>

\* f"kilo-code.{mode_name}.model"
SettingsKey(mode_name) == KiloPrefix \o mode_name \o ModelSuffix

\* mutant of generate_mode_settings: the key is f"kilo-code.{mode_name}"
generate_mode_settings_short_key(profile) ==
    [k \in {KiloPrefix \o m : m \in DOMAIN profile.modes} |->
        profile.modes[CHOOSE m \in DOMAIN profile.modes : KiloPrefix \o m = k]]

\* generate_mode_settings
generate_mode_settings(profile) ==
    [k \in {SettingsKey(m) : m \in DOMAIN profile.modes} |->
        profile.modes[CHOOSE m \in DOMAIN profile.modes : SettingsKey(m) = k]]

\* open(settings_path) and json.load (lines 135-137): the exception raised, or
\* the value loaded
LoadSettings(content) ==
    CASE content.kind = "unreadable" -> [exc |-> "OSError", isdict |-> FALSE, value |-> EmptyMap]
      [] content.kind \in {"empty", "partial", "garbage"} ->
            [exc |-> "JSONDecodeError", isdict |-> FALSE, value |-> EmptyMap]
      [] content.kind = "notutf8" ->
            [exc |-> "UnicodeDecodeError", isdict |-> FALSE, value |-> EmptyMap]
      [] content.kind = "array" -> [exc |-> "none", isdict |-> FALSE, value |-> EmptyMap]
      [] content.kind = "object" -> [exc |-> "none", isdict |-> TRUE, value |-> content.members]

\* the keys of `settings` that the loop of lines 143-147 stores under `mode`
KeysStoredAs(settings, mode) ==
    {k \in DOMAIN settings :
        StartsWith(k, KiloPrefix) /\ SplitSecond(k) = mode /\ EndsWith(k, ModelSuffix)}

ExtractedModes(settings) ==
    {SplitSecond(k) : k \in {x \in DOMAIN settings : StartsWith(x, KiloPrefix) /\ EndsWith(x, ModelSuffix)}}

RECURSIVE KiloSettingsOver(_, _)
\* the mappings that give each mode of `modes` the value of one of the keys
\* stored under it
KiloSettingsOver(settings, modes) ==
    IF modes = {} THEN {EmptyMap}
    ELSE LET m == CHOOSE x \in modes : TRUE
         IN {(m :> settings[k]) @@ rest :
                k \in KeysStoredAs(settings, m), rest \in KiloSettingsOver(settings, modes \ {m})}

\* the values kilo_settings can end with (lines 142-147): when several keys
\* are stored under one mode the last one in file order stays, and the model
\* keeps no file order, so each of them may
KiloSettings(settings) == KiloSettingsOver(settings, ExtractedModes(settings))

\* mutant of FirstMatch: a profile matches when kilo_settings is part of its modes
FirstMatchSubset(profiles, kilo_settings) ==
    LET hits == {i \in 1..Len(profiles) :
                    /\ DOMAIN kilo_settings \subseteq DOMAIN profiles[i].value.modes
                    /\ \A m \in DOMAIN kilo_settings : profiles[i].value.modes[m] = kilo_settings[m]}
    IN IF hits = {} THEN {}
       ELSE {profiles[CHOOSE i \in hits : \A j \in hits : i <= j].key}

\* lines 156-160: the first profile in iteration order whose modes equal
\* kilo_settings, as a set holding its id; the empty set stands for None
FirstMatch(profiles, kilo_settings) ==
    LET hits == {i \in 1..Len(profiles) : profiles[i].value.modes = kilo_settings}
    IN IF hits = {} THEN {}
       ELSE {profiles[CHOOSE i \in hits : \A j \in hits : i <= j].key}

\* get_current_profile_from_instance up to line 150, for an instance whose
\* User/settings.json holds `content` (has_dir: the instance has a
\* user_data_dir): the result if the function ends there
ReadInstance(has_dir, content) ==
    IF ~has_dir THEN [ended |-> TRUE, result |-> Returned({}), settings |-> EmptyMap]
    ELSE IF content.kind = "missing"
    THEN [ended |-> TRUE, result |-> Returned({}), settings |-> EmptyMap]
    ELSE LET loaded == LoadSettings(content)
         IN IF loaded.exc \in {"JSONDecodeError", "OSError"}
            THEN [ended |-> TRUE, result |-> Returned({}), settings |-> EmptyMap]
            ELSE IF loaded.exc # "none"
            THEN [ended |-> TRUE, result |-> Raised(loaded.exc, <<>>), settings |-> EmptyMap]
            ELSE IF ~loaded.isdict
            THEN [ended |-> TRUE, result |-> Raised("AttributeError", <<>>), settings |-> EmptyMap]
            ELSE [ended |-> FALSE, result |-> NoResult, settings |-> loaded.value]

\* `if x:` for an optional string: <<>> is None, <<"">> the empty string
Truthy(x) == x # <<>> /\ x # <<"">>

\* mutant of LaunchCommand: the workspace comes before the options
LaunchCommandWorkspaceFirst(user_data_dir, workspace, extensions_dir) ==
    <<"code">>
    \o (IF Truthy(workspace) THEN workspace ELSE <<>>)
    \o <<"--user-data-dir", user_data_dir>>
    \o (IF Truthy(extensions_dir) THEN <<"--extensions-dir">> \o extensions_dir ELSE <<>>)

\* launch_vscode_with_profile lines 66-70: the argument vector; workspace and
\* extensions_dir are <<>> for None
LaunchCommand(user_data_dir, workspace, extensions_dir) ==
    <<"code", "--user-data-dir", user_data_dir>>
    \o (IF Truthy(extensions_dir) THEN <<"--extensions-dir">> \o extensions_dir ELSE <<>>)
    \o (IF Truthy(workspace) THEN workspace ELSE <<>>)

\* one subprocess.call: the vector it was given and the exit code of the
\* editor, <<>> when the call raised
Launch(cmd, exit) == [cmd |-> cmd, exit |-> exit]

(***************************************************************************)
(* State                                                                   *)
(*   fs        the profile directories and their files                     *)
(*   pc        "idle", a step inside prepare_and_launch, or "done"         *)
(*   call      the operation called and its arguments                      *)
(*   locals    local variables of the running operation                    *)
(*   result    how the operation ended: returned value or raised error     *)
(*   warnings  what the operation passed to warnings.warn                  *)
(*   tmp       the directories made by create_temporary_user_data_dir      *)
(*   launches  the calls of subprocess.call: argument vector and exit code *)
(***************************************************************************)
Init ==
    /\ fs = [d \in Dirs |-> NoDir]
    /\ pc = "idle"
    /\ call = NoCall
    /\ locals = NoLocals
    /\ result = NoResult
    /\ warnings = <<>>
    /\ tmp = <<>>
    /\ launches = <<>>

(***************************************************************************)
(* The environment: profile directories and files come and go between      *)
(* calls (the tests build them with tempfile and write_text)               *)
(***************************************************************************)
EnvFrame == UNCHANGED <<pc, call, locals, result, warnings, tmp, launches>>

MakeDir(d) ==
    /\ pc = "idle"
    /\ ~fs[d].exists
    /\ fs' = [fs EXCEPT ![d] = [exists |-> TRUE, files |-> {}]]
    /\ EnvFrame

RemoveDir(d) ==
    /\ pc = "idle"
    /\ fs[d].exists
    /\ fs' = [fs EXCEPT ![d] = NoDir]
    /\ EnvFrame

\* write_text: creates the file or replaces its content
WriteFile(d, name, doc) ==
    /\ pc = "idle"
    /\ fs[d].exists
    /\ fs' = [fs EXCEPT ![d].files =
                {x \in @ : <<x.stem, x.ext>> # name} \cup {File(name[1], name[2], doc)}]
    /\ FileCount(fs') <= MaxFiles
    /\ EnvFrame

DeleteFile(d, file) ==
    /\ pc = "idle"
    /\ file \in fs[d].files
    /\ fs' = [fs EXCEPT ![d].files = @ \ {file}]
    /\ EnvFrame

(***************************************************************************)
(* Calls of config.py                                                      *)
(***************************************************************************)
CallFrame == UNCHANGED <<fs, tmp, launches>>

LoadProfilesFromDir(d) ==
    /\ pc = "idle"
    /\ \E listing \in GlobOrders(fs[d].files) :
         LET r == load_profiles_from_dir(listing)
         IN /\ call' = [op |-> "load_profiles_from_dir", arg |-> d]
            /\ locals' = [NoLocals EXCEPT !.profiles = r.profiles]
            /\ result' = IF r.raised = "none" THEN Returned(r.profiles) ELSE Raised(r.raised, <<>>)
            /\ warnings' = r.warned
    /\ pc' = "done"
    /\ CallFrame

ProfilesDirCandidates ==
    /\ pc = "idle"
    /\ call' = [op |-> "profiles_dir_candidates", arg |-> <<>>]
    /\ locals' = NoLocals
    /\ result' = Returned(profiles_dir_candidates(fs))
    /\ warnings' = <<>>
    /\ pc' = "done"
    /\ CallFrame

DiscoverProfiles ==
    /\ pc = "idle"
    /\ \E listing \in Listings(fs) :
         LET r == discover_profiles(fs, listing)
         IN /\ call' = [op |-> "discover_profiles", arg |-> <<>>]
            /\ locals' = [NoLocals EXCEPT !.profiles = r.profiles, !.loaded = r.loaded]
            /\ result' = IF r.raised = "none" THEN Returned(r.profiles) ELSE Raised(r.raised, <<>>)
            /\ warnings' = r.warned
    /\ pc' = "done"
    /\ CallFrame

DefaultProfiles ==
    /\ pc = "idle"
    /\ \E listing \in Listings(fs) :
         LET r == discover_profiles(fs, listing)
         IN /\ call' = [op |-> "default_profiles", arg |-> <<>>]
            /\ locals' = [NoLocals EXCEPT !.profiles = r.profiles, !.loaded = r.loaded]
            /\ result' = IF r.raised = "none" THEN Returned(default_profiles(r.profiles))
                          ELSE Raised(r.raised, <<>>)
            /\ warnings' = r.warned
    /\ pc' = "done"
    /\ CallFrame

\* the caller takes the result; the next call starts from idle
Return ==
    /\ pc = "done"
    /\ pc' = "idle"
    /\ call' = NoCall
    /\ locals' = NoLocals
    /\ result' = NoResult
    /\ warnings' = <<>>
    /\ UNCHANGED <<fs, tmp, launches>>

RegistryDocs == InvalidDocs \cup {DocLopr, DocLoprOther, DocModesOnly}

Environment ==
    \/ \E d \in Dirs : MakeDir(d)
    \/ \E d \in Dirs : RemoveDir(d)
    \/ \E d \in Dirs, name \in FileNames, doc \in RegistryDocs : WriteFile(d, name, doc)
    \/ \E d \in Dirs : \E file \in fs[d].files : DeleteFile(d, file)

Next ==
    \/ Environment
    \/ ProfilesDirCandidates
    \/ \E d \in Dirs : LoadProfilesFromDir(d)
    \/ DiscoverProfiles
    \/ DefaultProfiles
    \/ Return

Spec == Init /\ [][Next]_vars

(***************************************************************************)
(* launcher.py and vscode.py: prepare_and_launch, step by step             *)
(***************************************************************************)
\* the profile ids of the model in the order sorted() gives them
IdOrder ==
    <<"ags", "bas", "bogus", "buco", "copr", "custom", "dotted", "hiq", "invalid", "lopr",
      "nomode", "refo", "res">>

\* mutant of Sorted: the ids of the built-in table, whatever ids are given
SortedBuiltin(ids) == LET Keep(x) == x \in DictKeys(BuiltinProfiles) IN SelectSeq(IdOrder, Keep)

\* sorted(ids)
Sorted(ids) == LET Keep(x) == x \in ids IN SelectSeq(IdOrder, Keep)

\* the path mkdtemp returns for the k-th directory it makes
TempPath(k) == <<"kilomoco-profile-", k>>

\* a user data directory this program did not make
OtherPath == <<"/other/user-data", 0>>

NewTempDir ==
    [exists |-> TRUE, user_dir |-> FALSE, settings |-> NoFile, settings_tmp |-> NoFile,
     applied |-> <<>>, rmtree |-> "none"]

ProfileNames == {"lopr", "copr", "dotted", "nomode", "bogus"}

Workspaces == {<<>>, <<"/path/to/workspace">>}

ExtensionsDirs == {<<>>, <<"">>, <<"/path/to/extensions">>}

ExitCodes == {0, 1}

\* what subprocess.call may raise: `code` has gone from PATH since the check, or
\* any other Exception (test_prepare_and_launch_cleanup_on_error)
LaunchErrors == {"FileNotFoundError", "Exception"}

LaunchFrame == UNCHANGED <<fs, call>>

\* the call; code_on_path is what shutil.which("code") will find; tmp_before
\* and launches_before keep what the call found
PrepareAndLaunch(profile_name, workspace, code_on_path) ==
    /\ pc = "idle"
    /\ Len(tmp) < MaxTempDirs
    /\ Len(launches) < MaxLaunches
    /\ call' = [op |-> "prepare_and_launch",
                arg |-> [profile_name |-> profile_name, workspace |-> workspace,
                         code_on_path |-> code_on_path,
                         tmp_before |-> tmp, launches_before |-> launches]]
    /\ pc' = "check_vscode"
    /\ UNCHANGED <<fs, locals, result, warnings, tmp, launches>>

\* mutant of CheckVscodeAvailable: the result of the check is not looked at
CheckVscodeIgnored ==
    /\ pc = "check_vscode"
    /\ pc' = "get_profile"
    /\ UNCHANGED <<result, locals, warnings, tmp, launches, fs, call>>

\* lines 30-31
CheckVscodeAvailable ==
    /\ pc = "check_vscode"
    /\ IF call.arg.code_on_path
       THEN pc' = "get_profile" /\ UNCHANGED result
       ELSE pc' = "done" /\ result' = Raised("RuntimeError", <<>>)
    /\ UNCHANGED <<locals, warnings, tmp, launches>>
    /\ LaunchFrame

\* lines 34-39
GetProfile ==
    /\ pc = "get_profile"
    /\ \E listing \in Listings(fs) :
         LET r == discover_profiles(fs, listing)
             profiles == default_profiles(r.profiles)
         IN /\ warnings' = r.warned
            /\ IF call.arg.profile_name \notin DictKeys(profiles)
               THEN /\ result' = Raised("ValueError",
                                        [requested |-> call.arg.profile_name,
                                         available |-> Sorted(DictKeys(profiles))])
                    /\ locals' = [locals EXCEPT !.profiles = profiles]
                    /\ pc' = "done"
               ELSE /\ locals' = [locals EXCEPT !.profiles = profiles,
                                                !.profile = <<DictValue(profiles, call.arg.profile_name)>>]
                    /\ pc' = "mkdtemp"
                    /\ UNCHANGED result
    /\ UNCHANGED <<tmp, launches>>
    /\ LaunchFrame

\* an OSError leaves apply_mode_configuration and prepare_and_launch
ApplyFails ==
    /\ result' = Raised("OSError", <<>>)
    /\ pc' = "done"

\* vscode.py line 39: tempfile.mkdtemp
CreateTemporaryUserDataDir ==
    /\ pc = "mkdtemp"
    /\ \/ /\ tmp' = Append(tmp, [NewTempDir EXCEPT !.applied = locals.profile])
          /\ locals' = [locals EXCEPT !.temp_dir = Len(tmp) + 1]
          /\ pc' = "mkdir_user"
          /\ UNCHANGED result
       \/ /\ ApplyFails
          /\ UNCHANGED <<tmp, locals>>
    /\ UNCHANGED <<warnings, launches>>
    /\ LaunchFrame

\* vscode.py lines 40-44: the User directory and the settings to write
MakeUserDir ==
    /\ pc = "mkdir_user"
    /\ \/ /\ tmp' = [tmp EXCEPT ![locals.temp_dir].user_dir = TRUE]
          /\ locals' = [locals EXCEPT !.settings = generate_mode_settings(locals.profile[1])]
          /\ pc' = "open_tmp"
          /\ UNCHANGED result
       \/ /\ ApplyFails
          /\ UNCHANGED <<tmp, locals>>
    /\ UNCHANGED <<warnings, launches>>
    /\ LaunchFrame

\* _write_json_atomically line 56: open(temp_path, 'w'); when it fails there is
\* no settings.tmp to unlink
OpenTempFile ==
    /\ pc = "open_tmp"
    /\ \/ /\ tmp' = [tmp EXCEPT ![locals.temp_dir].settings_tmp = EmptyFile]
          /\ pc' = "dump"
          /\ UNCHANGED result
       \/ /\ ApplyFails
          /\ UNCHANGED tmp
    /\ UNCHANGED <<locals, warnings, launches>>
    /\ LaunchFrame

\* mutant of WriteFails: no except clause, settings.tmp stays where it is
WriteFailsKeepsTemp ==
    /\ UNCHANGED tmp
    /\ ApplyFails

\* the except clause of _write_json_atomically (lines 59-62)
WriteFails ==
    /\ tmp' = [tmp EXCEPT ![locals.temp_dir].settings_tmp = NoFile]
    /\ ApplyFails

\* mutant of DumpPart: the text is written into settings.json itself
DumpPartInPlace ==
    /\ pc = "dump"
    /\ tmp[locals.temp_dir].settings = NoFile
    /\ locals.settings # EmptyMap
    /\ tmp' = [tmp EXCEPT ![locals.temp_dir].settings = PartialJson(locals.settings)]
    /\ UNCHANGED <<pc, result, locals, warnings, launches>>
    /\ LaunchFrame

\* line 57: json.dump writes the text piece by piece
DumpPart ==
    /\ pc = "dump"
    /\ tmp[locals.temp_dir].settings_tmp = EmptyFile
    /\ locals.settings # EmptyMap
    /\ tmp' = [tmp EXCEPT ![locals.temp_dir].settings_tmp = PartialJson(locals.settings)]
    /\ UNCHANGED <<pc, result, locals, warnings, launches>>
    /\ LaunchFrame

\* line 57 ends and the file is closed, or writing fails
DumpRest ==
    /\ pc = "dump"
    /\ \/ /\ tmp' = [tmp EXCEPT ![locals.temp_dir].settings_tmp = JsonObject(locals.settings)]
          /\ pc' = "replace"
          /\ UNCHANGED result
       \/ WriteFails
    /\ UNCHANGED <<locals, warnings, launches>>
    /\ LaunchFrame

\* mutant of ReplaceSettings: an error of the rename is dropped and the call
\* goes on to the launch
ReplaceSettingsErrorDropped ==
    /\ pc = "replace"
    /\ \/ tmp' = [tmp EXCEPT ![locals.temp_dir].settings = tmp[locals.temp_dir].settings_tmp,
                             ![locals.temp_dir].settings_tmp = NoFile]
       \/ tmp' = [tmp EXCEPT ![locals.temp_dir].settings_tmp = NoFile]
    /\ pc' = "launch"
    /\ UNCHANGED <<result, locals, warnings, launches>>
    /\ LaunchFrame

\* line 58: temp_path.replace(path); _write_json_atomically returns to
\* apply_mode_configuration, which returns to line 42 of launcher.py, or to
\* the caller that called it by itself
ReplaceSettings ==
    /\ pc = "replace"
    /\ \/ /\ tmp' = [tmp EXCEPT ![locals.temp_dir].settings = tmp[locals.temp_dir].settings_tmp,
                                ![locals.temp_dir].settings_tmp = NoFile]
          /\ IF call.op = "_write_json_atomically"
             THEN pc' = "done" /\ result' = Returned(<<>>)
             ELSE pc' = "launch" /\ UNCHANGED result
       \/ WriteFails
    /\ UNCHANGED <<locals, warnings, launches>>
    /\ LaunchFrame

\* what shutil.rmtree leaves of a directory: all of it gone
Removed(dir) ==
    [dir EXCEPT !.exists = FALSE, !.user_dir = FALSE, !.settings = NoFile,
                !.settings_tmp = NoFile, !.rmtree = "removed"]

\* mutant of LaunchVscodeWithProfile: the directory is removed in a finally
\* clause, also when the editor has returned
LaunchVscodeWithProfileFinally ==
    /\ pc = "launch"
    /\ LET cmd == LaunchCommand(TempPath(locals.temp_dir), call.arg.workspace, <<>>)
       IN \/ /\ \E code \in ExitCodes :
                   /\ launches' = Append(launches, Launch(cmd, <<code>>))
                   /\ result' = Returned(code)
             /\ tmp' = [tmp EXCEPT ![locals.temp_dir] = Removed(@)]
             /\ pc' = "done"
             /\ UNCHANGED locals
          \/ /\ launches' = Append(launches, Launch(cmd, <<>>))
             /\ \E e \in LaunchErrors : locals' = [locals EXCEPT !.launch_error = e]
             /\ pc' = "cleanup"
             /\ UNCHANGED <<result, tmp>>
    /\ UNCHANGED warnings
    /\ LaunchFrame

\* launcher.py line 46 and launch_vscode_with_profile: subprocess.call returns
\* the exit code of the editor, or raises and the except clause of line 47 is
\* entered with that error
LaunchVscodeWithProfile ==
    /\ pc = "launch"
    /\ LET cmd == LaunchCommand(TempPath(locals.temp_dir), call.arg.workspace, <<>>)
       IN \/ /\ \E code \in ExitCodes :
                   /\ launches' = Append(launches, Launch(cmd, <<code>>))
                   /\ result' = Returned(code)
             /\ pc' = "done"
             /\ UNCHANGED locals
          \/ /\ launches' = Append(launches, Launch(cmd, <<>>))
             /\ \E e \in LaunchErrors : locals' = [locals EXCEPT !.launch_error = e]
             /\ pc' = "cleanup"
             /\ UNCHANGED result
    /\ UNCHANGED <<warnings, tmp>>
    /\ LaunchFrame

\* launch_vscode_with_profile called by itself, with a user data directory of
\* the caller's
CallLaunchVscodeWithProfile(workspace, extensions_dir) ==
    /\ pc = "idle"
    /\ Len(tmp) < MaxTempDirs
    /\ Len(launches) < MaxLaunches
    /\ call' = [op |-> "launch_vscode_with_profile",
                arg |-> [user_data_dir |-> OtherPath, workspace |-> workspace,
                         extensions_dir |-> extensions_dir]]
    /\ LET cmd == LaunchCommand(OtherPath, workspace, extensions_dir)
       IN \/ \E code \in ExitCodes :
                /\ launches' = Append(launches, Launch(cmd, <<code>>))
                /\ result' = Returned(code)
          \/ /\ launches' = Append(launches, Launch(cmd, <<>>))
             /\ \E e \in LaunchErrors : result' = Raised(e, "subprocess.call")
    /\ pc' = "done"
    /\ UNCHANGED <<fs, locals, warnings, tmp>>

\* shutil.rmtree raises: nothing was removed yet, or settings.json was
RemoveFailed(dir) ==
    {[dir EXCEPT !.rmtree = "failed"], [dir EXCEPT !.rmtree = "failed", !.settings = NoFile]}

\* mutant of Rmtree: no inner try, the error of shutil.rmtree leaves the call
RmtreeErrorEscapes ==
    /\ pc = "cleanup"
    /\ \/ /\ tmp' = [tmp EXCEPT ![locals.temp_dir] = Removed(@)]
          /\ pc' = "reraise"
          /\ UNCHANGED result
       \/ /\ \E dir \in RemoveFailed(tmp[locals.temp_dir]) : tmp' = [tmp EXCEPT ![locals.temp_dir] = dir]
          /\ pc' = "done"
          /\ result' = Raised("PermissionError", "shutil.rmtree")
    /\ UNCHANGED <<locals, warnings, launches>>
    /\ LaunchFrame

\* launcher.py lines 49-52: shutil.rmtree removes the directory, or raises and
\* the error is dropped
Rmtree ==
    /\ pc = "cleanup"
    /\ \/ tmp' = [tmp EXCEPT ![locals.temp_dir] = Removed(@)]
       \/ \E dir \in RemoveFailed(tmp[locals.temp_dir]) : tmp' = [tmp EXCEPT ![locals.temp_dir] = dir]
    /\ pc' = "reraise"
    /\ UNCHANGED <<result, locals, warnings, launches>>
    /\ LaunchFrame

\* launcher.py line 53: the bare raise raises the launch error again
Reraise ==
    /\ pc = "reraise"
    /\ result' = Raised(locals.launch_error, "subprocess.call")
    /\ pc' = "done"
    /\ UNCHANGED <<locals, warnings, tmp, launches>>
    /\ LaunchFrame

(***************************************************************************)
(* vscode.py: get_current_profile_from_instance                            *)
(***************************************************************************)
\* the settings of the test profile lopr, as generate_mode_settings writes them
SettingsLoprTest ==
    (SettingsKey(<<"default">>) :> "llama-4-maverick")
    @@ (SettingsKey(<<"orchestrator">>) :> "deepseek-v3.2-exp")

\* what the User/settings.json of a directory not made by this program may hold
ForeignContents ==
    {NoFile, Unreadable, NotJson, NotUtf8, JsonArray, EmptyFile,
     JsonObject(EmptyMap),
     \* test_get_profile_no_kilo_settings
     JsonObject((<<"editor", Dot, "fontSize">> :> "14")
                @@ (<<"workbench", Dot, "colorTheme">> :> "Default Dark+")),
     JsonObject(SettingsLoprTest),
     \* a strict subset and a strict superset of the modes of lopr
     JsonObject((SettingsKey(<<"default">>) :> "llama-4-maverick")),
     JsonObject(SettingsLoprTest @@ (SettingsKey(<<"code">>) :> "minimax-m2")),
     JsonObject(SettingsLoprTest @@ (<<"editor", Dot, "fontSize">> :> "14")),
     \* test_get_profile_no_match
     JsonObject((SettingsKey(<<"default">>) :> "unknown-model")
                @@ (SettingsKey(<<"code">>) :> "another-unknown")),
     \* the settings of the built-in profile bas (test_get_profile_with_matching_settings)
     JsonObject(generate_mode_settings(Builtin_bas.value)),
     \* keys under kilo-code. of two and of four segments, and one that does
     \* not end in .model
     JsonObject((KiloPrefix \o <<"model">>) :> "llama-4-maverick"),
     JsonObject(SettingsLoprTest @@ (SettingsKey(<<"a", Dot, "b">>) :> "minimax-m2")),
     JsonObject(SettingsLoprTest
                @@ (KiloPrefix \o <<"code", Dot, "temperature">> :> "1"))}

\* instances on the directories this program made
OwnInstances ==
    {[user_data_dir |-> <<TempPath(k)>>,
      content |-> IF tmp[k].exists /\ tmp[k].user_dir THEN tmp[k].settings ELSE NoFile] :
        k \in 1..Len(tmp)}

\* instances without a user_data_dir, or on another directory with its
\* settings file
ForeignInstances ==
    {[user_data_dir |-> <<>>, content |-> NoFile]}
    \cup {[user_data_dir |-> <<OtherPath>>, content |-> c] : c \in ForeignContents}

\* the instance handed in
Instances == OwnInstances \cup ForeignInstances

\* lines 141-160, for the settings loaded: kilo_settings is one of KiloSettings
FinishMatch(settings) ==
    \E kilo_settings \in KiloSettings(settings) :
        IF kilo_settings = EmptyMap
        THEN /\ result' = Returned({})
             /\ locals' = [NoLocals EXCEPT !.settings = settings, !.kilo_settings = kilo_settings]
             /\ warnings' = <<>>
        ELSE \E listing \in Listings(fs) :
                LET r == discover_profiles(fs, listing)
                    profiles == default_profiles(r.profiles)
                IN /\ result' = Returned(FirstMatch(profiles, kilo_settings))
                   /\ locals' = [NoLocals EXCEPT !.settings = settings,
                                                 !.kilo_settings = kilo_settings,
                                                 !.profiles = profiles]
                   /\ warnings' = r.warned

GetCurrentProfileFromInstance(instance) ==
    /\ pc = "idle"
    /\ call' = [op |-> "get_current_profile_from_instance", arg |-> instance]
    /\ LET r == ReadInstance(instance.user_data_dir # <<>>, instance.content)
       IN IF r.ended
          THEN result' = r.result /\ locals' = NoLocals /\ warnings' = <<>>
          ELSE FinishMatch(r.settings)
    /\ pc' = "done"
    /\ UNCHANGED <<fs, tmp, launches>>

(***************************************************************************)
(* Launching and reconciling, over the profile directories of LaunchDirs   *)
(***************************************************************************)
LaunchDocs == {DocLopr, DocCopr, DocDotted, DocNoMode}

LaunchFileNames == {<<"lopr", "yml">>, <<"custom", "yml">>}

\* <cwd>/profiles and its files come and go between the calls
LaunchEnvironment ==
    \/ MakeDir("cwd")
    \/ RemoveDir("cwd")
    \/ \E name \in LaunchFileNames, doc \in LaunchDocs : WriteFile("cwd", name, doc)
    \/ \E file \in fs["cwd"].files : DeleteFile("cwd", file)

\* <cwd>/profiles with up to two *.yml files, or no profile directory at all
LaunchDirs ==
    {[d \in Dirs |-> NoDir]}
    \cup {[d \in Dirs |-> IF d = "cwd" THEN [exists |-> TRUE, files |-> files] ELSE NoDir] :
            files \in {a \cup b : a \in {{}} \cup {{File("lopr", "yml", doc)} : doc \in LaunchDocs},
                                  b \in {{}} \cup {{File("custom", "yml", doc)} : doc \in LaunchDocs}}}

InitLaunch ==
    /\ fs \in {f \in LaunchDirs : FileCount(f) <= MaxFiles}
    /\ pc = "idle"
    /\ call = NoCall
    /\ locals = NoLocals
    /\ result = NoResult
    /\ warnings = <<>>
    /\ tmp = <<>>
    /\ launches = <<>>

NextLaunch ==
    \/ \E n \in ProfileNames, w \in Workspaces, a \in BOOLEAN : PrepareAndLaunch(n, w, a)
    \/ CheckVscodeAvailable
    \/ GetProfile
    \/ CreateTemporaryUserDataDir
    \/ MakeUserDir
    \/ OpenTempFile
    \/ DumpPart
    \/ DumpRest
    \/ ReplaceSettings
    \/ LaunchVscodeWithProfile
    \/ \E w \in Workspaces \cup {<<"">>}, x \in ExtensionsDirs : CallLaunchVscodeWithProfile(w, x)
    \/ Rmtree
    \/ Reraise
    \/ \E instance \in OwnInstances : GetCurrentProfileFromInstance(instance)
    \/ Return

SpecLaunch == InitLaunch /\ [][NextLaunch]_vars

(***************************************************************************)
(* vscode.py: _write_json_atomically called by itself, on a path in a      *)
(* directory of the caller's (test_write_json_atomically)                  *)
(***************************************************************************)
\* what the target holds before the first call: nothing, or an older object
TargetsBefore == {NoFile, JsonObject(<<"key">> :> "old")}

\* the data to write
WriteData ==
    {EmptyMap, <<"key">> :> "value", SettingsLoprTest, generate_mode_settings(Builtin_bas.value)}

\* the caller's directory, as the first directory of tmp
InitWrite ==
    /\ fs = [d \in Dirs |-> NoDir]
    /\ pc = "idle"
    /\ call = NoCall
    /\ locals = NoLocals
    /\ result = NoResult
    /\ warnings = <<>>
    /\ \E before \in TargetsBefore :
          tmp = <<[NewTempDir EXCEPT !.user_dir = TRUE, !.settings = before]>>
    /\ launches = <<>>

\* the call: lines 54-55; `before` keeps what the target held
WriteJsonAtomically(data) ==
    /\ pc = "idle"
    /\ call' = [op |-> "_write_json_atomically",
                arg |-> [data |-> data, before |-> tmp[1].settings]]
    /\ locals' = [NoLocals EXCEPT !.temp_dir = 1, !.settings = data]
    /\ pc' = "open_tmp"
    /\ UNCHANGED <<fs, result, warnings, tmp, launches>>

NextWrite ==
    \/ \E data \in WriteData : WriteJsonAtomically(data)
    \/ OpenTempFile
    \/ DumpPart
    \/ DumpRest
    \/ ReplaceSettings
    \/ Return

SpecWrite == InitWrite /\ [][NextWrite]_vars

(***************************************************************************)
(* cli.py and tui.py: the callers of prepare_and_launch                    *)
(***************************************************************************)
\* the names config.py defines at its top level
ConfigNames ==
    {"ModeCombinationProfile", "default_profiles", "load_profiles_from_file",
     "save_profiles_to_file", "profiles_dir_candidates", "load_profiles_from_dir",
     "discover_profiles"}

\* launcher.py line 8: from .config import default_profiles, ModeProfile
LauncherImportsFromConfig == {"default_profiles", "ModeProfile"}

\* what executing `from .launcher import prepare_and_launch` raises: the module
\* body of launcher.py runs its own imports first
ImportLauncher ==
    IF LauncherImportsFromConfig \subseteq ConfigNames THEN "none" ELSE "ImportError"

\* what main printed and the exit status it returned
Exit(rc, out, err) == [rc |-> rc, out |-> out, err |-> err]

\* cli.py lines 22-24: one line per profile id, in sorted order
ListLines(profiles) ==
    LET ids == Sorted(DictKeys(profiles))
    IN [i \in 1..Len(ids) |->
          [id |-> ids[i], name |-> DictValue(profiles, ids[i]).name,
           description |-> DictValue(profiles, ids[i]).description]]

\* the arguments the callers hand to prepare_and_launch, and what it gave back
InnerCall(args, profile_name, workspace, code_on_path) ==
    [args |-> args, profile_name |-> profile_name, workspace |-> workspace,
     code_on_path |-> code_on_path, tmp_before |-> tmp, launches_before |-> launches,
     inner |-> NoResult]

\* cli.py lines 17-36 up to the call of line 30; list, profile and workspace
\* are what parse_args made of argv
CliMain(list, profile, workspace, code_on_path) ==
    /\ pc = "idle"
    /\ Len(tmp) < MaxTempDirs
    /\ Len(launches) < MaxLaunches
    /\ call' = [op |-> "main",
                arg |-> InnerCall([list |-> list, profile |-> profile],
                                  IF profile = <<>> THEN "" ELSE profile[1], workspace,
                                  code_on_path)]
    /\ IF list
       THEN /\ \E listing \in Listings(fs) :
                   LET r == discover_profiles(fs, listing)
                   IN /\ warnings' = r.warned
                      /\ result' = IF r.raised = "none"
                                    THEN Returned(Exit(0, ListLines(default_profiles(r.profiles)),
                                                       <<>>))
                                    ELSE Raised(r.raised, <<>>)
            /\ pc' = "returned"
       ELSE IF Truthy(profile)
       THEN IF ImportLauncher # "none"
            THEN /\ result' = Raised(ImportLauncher, "kilomoco.launcher")
                 /\ pc' = "returned"
                 /\ UNCHANGED warnings
            ELSE /\ pc' = "check_vscode"
                 /\ UNCHANGED <<result, warnings>>
       ELSE /\ result' = Returned(Exit(0, <<"interactive TUI not yet implemented">>, <<>>))
            /\ pc' = "returned"
            /\ UNCHANGED warnings
    /\ UNCHANGED <<fs, locals, tmp, launches>>

\* tui.py lines 131-134 up to the call: prepare_and_launch(profile_id)
LaunchProfile(profile_id, code_on_path) ==
    /\ pc = "idle"
    /\ Len(tmp) < MaxTempDirs
    /\ Len(launches) < MaxLaunches
    /\ call' = [op |-> "launch_profile", arg |-> InnerCall(<<>>, profile_id, <<>>, code_on_path)]
    /\ pc' = "check_vscode"
    /\ UNCHANGED <<fs, locals, result, warnings, tmp, launches>>

\* what the caller does with the outcome of prepare_and_launch: tui.py lines
\* 135-137 (notify, and every Exception is caught), cli.py lines 30-33
TakeOutcome ==
    /\ pc = "done"
    /\ call.op \in {"main", "launch_profile"}
    /\ call' = [call EXCEPT !.arg.inner = result]
    /\ result' =
          IF call.op = "launch_profile"
          THEN Returned([notify |-> IF result.outcome = "return" THEN "information" ELSE "error",
                         profile_id |-> call.arg.profile_name])
          ELSE IF result.outcome = "return"
          THEN Returned(Exit(result.value, <<>>, <<>>))
          ELSE IF result.exc \in {"ValueError", "RuntimeError"}
          THEN Returned(Exit(1, <<>>, <<[text |-> "Error:", exc |-> result.exc]>>))
          ELSE result
    /\ pc' = "returned"
    /\ UNCHANGED <<fs, locals, warnings, tmp, launches>>

\* the caller of main or launch_profile takes the result
CallerReturn ==
    /\ pc = "returned"
    /\ pc' = "idle"
    /\ call' = NoCall
    /\ locals' = NoLocals
    /\ result' = NoResult
    /\ warnings' = <<>>
    /\ UNCHANGED <<fs, tmp, launches>>

\* what --profile may hold: absent, empty, an id of the registry, an unknown id
ProfileOptions == {<<>>, <<"">>, <<"lopr">>, <<"bogus">>}

NextCallers ==
    \/ \E list \in BOOLEAN, profile \in ProfileOptions, w \in Workspaces, a \in BOOLEAN :
          CliMain(list, profile, w, a)
    \/ \E n \in {"lopr", "bogus"}, a \in BOOLEAN : LaunchProfile(n, a)
    \/ CheckVscodeAvailable
    \/ GetProfile
    \/ CreateTemporaryUserDataDir
    \/ MakeUserDir
    \/ OpenTempFile
    \/ DumpPart
    \/ DumpRest
    \/ ReplaceSettings
    \/ LaunchVscodeWithProfile
    \/ Rmtree
    \/ Reraise
    \/ TakeOutcome
    \/ CallerReturn

SpecCallers == InitLaunch /\ [][NextCallers]_vars

(***************************************************************************)
(* Reconciling instances found running, and resolving profile ids, while   *)
(* <cwd>/profiles changes between the calls.  prepare_and_launch is asked  *)
(* for an id no profile file defines, so the call ends at the lookup.      *)
(***************************************************************************)
NextReconcile ==
    \/ LaunchEnvironment
    \/ DefaultProfiles
    \/ \E instance \in Instances : GetCurrentProfileFromInstance(instance)
    \/ \E a \in BOOLEAN : PrepareAndLaunch("bogus", <<>>, a)
    \/ CheckVscodeAvailable
    \/ GetProfile
    \/ Return

SpecReconcile == Init /\ [][NextReconcile]_vars

(***************************************************************************)
(* vscode.py: detect_vscode_instances.  Arguments and process names are    *)
(* plain strings; an optional value is <<>> for None and <<v>> for v.      *)
(***************************************************************************)
\* the strings of the model for which arg.startswith('-') holds
Flags == {"--user-data-dir", "--new-window"}

\* argument vectors: those of the tests; the program as a path; the flag
\* without a value or twice; other flags; more than one path; empty
\* arguments; a workspace called code
Cmdlines ==
    {<<>>,
     <<"code">>,
     <<"code", "/path/to/workspace">>,
     <<"/usr/bin/code", "/path/to/workspace">>,
     <<"code", "--user-data-dir">>,
     <<"code", "--user-data-dir", "/tmp/user-data">>,
     <<"code", "--user-data-dir", "/tmp/user-data", "code">>,
     <<"code", "/path/to/workspace", "--user-data-dir">>,
     <<"code", "--user-data-dir", "/tmp/user-data", "/path/to/workspace">>,
     <<"/usr/bin/code", "--user-data-dir", "/tmp/user-data", "/path/to/workspace">>,
     <<"code", "/path/to/workspace", "--user-data-dir", "/tmp/user-data">>,
     <<"code", "--new-window", "--user-data-dir", "/other/user-data", "/path/to/workspace", "/second">>,
     <<"code", "--user-data-dir", "/tmp/user-data", "--user-data-dir", "/other/user-data">>,
     <<"code", "--user-data-dir", "">>,
     <<"code", "", "--user-data-dir", "/tmp/user-data", "/path/to/workspace">>}

\* what <user_data_dir>/extensions/kilocode.kilo-code is when exists() asks:
\* there, not there, or below a directory that may not be searched (stat fails
\* with EACCES, which Path.exists raises as PermissionError)
ExtStates == {"present", "absent", "denied"}

\* what one step of psutil.process_iter hands to the loop body; `raises` is the
\* psutil error that reading the process raises, "none" when it does not
Process(pid, name, cmdline, raises, ext) ==
    [pid |-> pid, name |-> name, cmdline |-> cmdline, raises |-> raises, ext |-> ext]

\* running editors with every argument vector, and other processes: another
\* program, processes whose name or argument vector the system withholds
\* (None), processes that raise when they are read, so that nothing is known of
\* them
ProcessesAt(pid) ==
    {Process(pid, <<name>>, <<cmdline>>, "none", ext) :
        name \in {"code", "Code"}, cmdline \in Cmdlines, ext \in ExtStates}
    \cup {Process(pid, <<"chrome">>, <<c>>, "none", "present") :
            c \in {<<"/usr/bin/chrome">>, <<"code", "--user-data-dir", "/tmp/user-data">>}}
    \cup {Process(pid, <<>>, <<>>, "none", "present"),
          Process(pid, <<"code">>, <<>>, "none", "present"),
          Process(pid, <<>>, <<<<"code", "--user-data-dir", "/tmp/user-data">>>>, "none", "present")}
    \cup {Process(pid, <<>>, <<>>, e, "present") : e \in {"NoSuchProcess", "AccessDenied"}}

NoParse == [user_data_dir |-> <<>>, workspace |-> <<>>]

RECURSIVE ParseFrom(_, _, _)
\* the while loop of lines 90-99 from 1-based position i on
ParseFrom(cmdline, i, acc) ==
    IF i > Len(cmdline) THEN acc
    ELSE IF cmdline[i] = "--user-data-dir" /\ i + 1 <= Len(cmdline)
    THEN ParseFrom(cmdline, i + 2, [acc EXCEPT !.user_data_dir = <<cmdline[i + 1]>>])
    ELSE IF cmdline[i] \notin Flags /\ acc.workspace = <<>> /\ cmdline[i] # "code"
    THEN ParseFrom(cmdline, i + 1, [acc EXCEPT !.workspace = <<cmdline[i]>>])
    ELSE ParseFrom(cmdline, i + 1, acc)

\* lines 85-99: cmdline is proc.info['cmdline'] or []
ParseCmdline(cmdline) == ParseFrom(IF cmdline = <<>> THEN <<>> ELSE cmdline[1], 1, NoParse)

\* the loop body goes on to the next process
Skip == [kind |-> "skip", exc |-> "none", instance |-> <<>>]

\* an exception leaves the loop body and the function
Escapes(e) == [kind |-> "raise", exc |-> e, instance |-> <<>>]

\* mutant of InspectOutcome: no except clause for the errors of psutil
InspectOutcomeNoExcept(proc) ==
    IF proc.raises # "none" THEN Escapes(proc.raises)
    ELSE IF proc.name \notin {<<"code">>, <<"Code">>} THEN Skip
    ELSE LET parsed == ParseCmdline(proc.cmdline)
         IN IF parsed.user_data_dir \in {<<>>, <<"">>} THEN Skip
            ELSE IF proc.ext = "denied" THEN Escapes("PermissionError")
            ELSE IF proc.ext = "absent" THEN Skip
            ELSE [kind |-> "append", exc |-> "none",
                  instance |-> <<[workspace |-> parsed.workspace,
                                  user_data_dir |-> parsed.user_data_dir[1],
                                  has_kilo |-> TRUE,
                                  pid |-> proc.pid]>>]

\* mutant of InspectOutcome: has_kilo is not looked at
InspectOutcomeAnyEditor(proc) ==
    IF proc.raises # "none" THEN Skip
    ELSE IF proc.name \notin {<<"code">>, <<"Code">>} THEN Skip
    ELSE LET parsed == ParseCmdline(proc.cmdline)
         IN IF parsed.user_data_dir \in {<<>>, <<"">>} THEN Skip
            ELSE [kind |-> "append", exc |-> "none",
                  instance |-> <<[workspace |-> parsed.workspace,
                                  user_data_dir |-> parsed.user_data_dir[1],
                                  has_kilo |-> proc.ext = "present",
                                  pid |-> proc.pid]>>]

\* lines 83-116 for one process: what the loop body does
InspectOutcome(proc) ==
    IF proc.raises # "none" THEN Skip
    ELSE IF proc.name \notin {<<"code">>, <<"Code">>} THEN Skip
    ELSE LET parsed == ParseCmdline(proc.cmdline)
         IN IF parsed.user_data_dir \in {<<>>, <<"">>} THEN Skip
            ELSE IF proc.ext = "denied" THEN Escapes("PermissionError")
            ELSE IF proc.ext = "absent" THEN Skip
            ELSE [kind |-> "append", exc |-> "none",
                  instance |-> <<[workspace |-> parsed.workspace,
                                  user_data_dir |-> parsed.user_data_dir[1],
                                  has_kilo |-> TRUE,
                                  pid |-> proc.pid]>>]

DetectFrame == UNCHANGED <<fs, warnings, tmp, launches>>

\* the call: line 80
DetectVscodeInstances ==
    /\ pc = "idle"
    /\ call' = [op |-> "detect_vscode_instances", arg |-> [seen |-> <<>>, proc |-> <<>>]]
    /\ locals' = NoLocals
    /\ pc' = "process_iter"
    /\ UNCHANGED result
    /\ DetectFrame

\* what call.arg keeps of a process once the loop has moved on
Seen(proc) == [pid |-> proc.pid, raises |-> proc.raises]

\* one turn of the loop of line 81: process_iter yields a process; call.arg
\* keeps it, and of the processes before it the pid and the error raised
InspectProcess(proc) ==
    /\ pc = "process_iter"
    /\ locals.inspected < MaxProcs
    /\ call' = [call EXCEPT !.arg = [seen |-> IF @.proc = <<>> THEN <<>>
                                               ELSE Append(@.seen, Seen(@.proc[1])),
                                     proc |-> <<proc>>]]
    /\ LET o == InspectOutcome(proc)
       IN /\ locals' = [locals EXCEPT !.inspected = @ + 1,
                                       !.instances = IF o.kind = "append" THEN @ \o o.instance ELSE @]
          /\ IF o.kind = "raise"
             THEN pc' = "done" /\ result' = Raised(o.exc, <<>>)
             ELSE UNCHANGED <<pc, result>>
    /\ DetectFrame

\* process_iter is exhausted: line 118
ReturnInstances ==
    /\ pc = "process_iter"
    /\ result' = Returned(locals.instances)
    /\ pc' = "done"
    /\ UNCHANGED <<call, locals>>
    /\ DetectFrame

NextDetect ==
    \/ DetectVscodeInstances
    \/ \E proc \in ProcessesAt(1000 + locals.inspected) : InspectProcess(proc)
    \/ ReturnInstances
    \/ Return

SpecDetect == Init /\ [][NextDetect]_vars

(***************************************************************************)
(* Properties of the profile registry                                      *)
(***************************************************************************)
\* the valid profile files of directory d
ValidFiles(d) == {f \in fs[d].files : IsValidDoc(f.doc)}

\* the definitions directory d holds for profile id
DefinitionsIn(d, id) == {ProfileOfFile(f) : f \in {x \in ValidFiles(d) : ProfileId(x) = id}}

DefinedIds(d) == {ProfileId(f) : f \in ValidFiles(d)}

ResolvedRegistry == pc = "done" /\ call.op \in {"discover_profiles", "default_profiles"}

\* the documented priority: 1 the environment directory, 2 <cwd>/profiles,
\* 3 ~/.kilomoco/profiles
DocumentedRank(d) == CASE d = "env" -> 1 [] d = "cwd" -> 2 [] d = "home" -> 3

\* C1: of two existing directories that both define a profile id by a valid
\* file, the one of higher documented priority (the environment directory
\* before <cwd>/profiles before ~/.kilomoco/profiles) gives the definition that
\* discover_profiles and default_profiles return.
C1_HigherPriorityDirectoryWins ==
    ResolvedRegistry /\ result.outcome = "return" =>
        \A a, b \in Dirs :
            fs[a].exists /\ fs[b].exists /\ DocumentedRank(b) < DocumentedRank(a) =>
                \A id \in DefinedIds(a) \cap DefinedIds(b) :
                    /\ id \in DictKeys(result.value)
                    /\ DictValue(result.value, id) \in DefinitionsIn(b, id)

\* position of directory d in the list profiles_dir_candidates returned
CandidateIndex(d) == CHOOSE i \in 1..Len(locals.loaded) : locals.loaded[i].dir = d

Candidates == {locals.loaded[i].dir : i \in 1..Len(locals.loaded)}

\* the directory that comes last in the candidate list among those defining id
LastDefining(id) ==
    CHOOSE d \in Candidates :
        /\ id \in DefinedIds(d)
        /\ \A e \in Candidates : id \in DefinedIds(e) => CandidateIndex(e) <= CandidateIndex(d)

\* C2: when candidate directories yield the same id, the registry entry equals
\* in id, name, description and modes a profile of the directory that comes
\* later in the candidate list; nothing of an earlier directory's profile is
\* kept.
C2_LaterDirectoryReplaces ==
    ResolvedRegistry /\ result.outcome = "return" =>
        \A a, b \in Candidates :
            CandidateIndex(a) < CandidateIndex(b) =>
                \A id \in DefinedIds(a) \cap DefinedIds(b) :
                    /\ id \in DictKeys(result.value)
                    /\ \E p \in DefinitionsIn(LastDefining(id), id) :
                        /\ DictValue(result.value, id).id = p.id
                        /\ DictValue(result.value, id).name = p.name
                        /\ DictValue(result.value, id).description = p.description
                        /\ DictValue(result.value, id).modes = p.modes

\* two directories define lopr with different name, description and modes, and
\* the registry has been resolved
C2_Witness ==
    /\ ResolvedRegistry
    /\ File("lopr", "yaml", DocLopr) \in fs["env"].files
    /\ File("lopr", "yaml", DocLoprOther) \in fs["cwd"].files
    /\ DictValue(result.value, "lopr").description = ""

LoadedDir == pc = "done" /\ call.op = "load_profiles_from_dir"

WarningsFor(file) == {i \in 1..Len(warnings) : warnings[i].stem = file.stem /\ warnings[i].ext = file.ext}

\* C3: load_profiles_from_dir returns normally whatever the directory holds;
\* every file that fails to parse, is no mapping, has no modes key or has modes
\* that are no mapping gives exactly one warning and no profile; every valid
\* file of the directory still gives its profile.
C3_InvalidFilesSkipped ==
    LoadedDir =>
        /\ result.outcome = "return"
        /\ \A f \in fs[call.arg].files \ ValidFiles(call.arg) : Cardinality(WarningsFor(f)) = 1
        /\ Len(warnings) = Cardinality(fs[call.arg].files \ ValidFiles(call.arg))
        /\ \A i \in 1..Len(result.value) :
               result.value[i].value \in DefinitionsIn(call.arg, result.value[i].key)
        /\ \A f \in ValidFiles(call.arg) : ProfileId(f) \in DictKeys(result.value)

\* a directory with an invalid and a valid file has been loaded
C3_Witness ==
    /\ LoadedDir
    /\ fs[call.arg].files \ ValidFiles(call.arg) # {}
    /\ ValidFiles(call.arg) # {}
    /\ Len(warnings) = 1
    /\ Len(result.value) = 1

NoValidFile == \A d \in Dirs : fs[d].exists => ValidFiles(d) = {}

BuiltinIds == {"lopr", "copr", "hiq", "bas", "res", "ags", "refo", "buco"}

SevenModes ==
    {<<"default">>, <<"orchestrator">>, <<"architect">>, <<"code">>, <<"debug">>, <<"ask">>,
     <<"administrator">>}

\* C4: with no candidate directory, or none holding a valid profile file,
\* default_profiles returns the built-in table: ids lopr, copr, hiq, bas, res,
\* ags, refo, buco, each profile with exactly the seven modes and a non-empty
\* name and description.
C4_BuiltinFallback ==
    pc = "done" /\ call.op = "default_profiles" /\ NoValidFile =>
        /\ result.outcome = "return"
        /\ Len(result.value) = 8
        /\ DictKeys(result.value) = BuiltinIds
        /\ \A i \in 1..Len(result.value) :
            /\ result.value[i].value.id = result.value[i].key
            /\ DOMAIN result.value[i].value.modes = SevenModes
            /\ result.value[i].value.name # ""
            /\ result.value[i].value.description # ""

\* default_profiles has run over directories that exist and hold only invalid files
C4_Witness ==
    /\ pc = "done" /\ call.op = "default_profiles"
    /\ NoValidFile
    /\ \E d \in Dirs : fs[d].files # {}
    /\ Len(result.value) = 8

\* C5: when the scan finds at least one valid profile, default_profiles returns
\* exactly the discovered profiles: an id is in the result if and only if a
\* valid file of a candidate directory defines it, and every entry is a
\* definition from such a file.
C5_DiscoveredOnly ==
    pc = "done" /\ call.op = "default_profiles" /\ ~NoValidFile =>
        /\ result.outcome = "return"
        /\ DictKeys(result.value) = UNION {DefinedIds(d) : d \in {e \in Dirs : fs[e].exists}}
        /\ Len(result.value) = Cardinality(DictKeys(result.value))
        /\ \A i \in 1..Len(result.value) :
               \E d \in Dirs : result.value[i].value \in DefinitionsIn(d, result.value[i].key)

\* default_profiles has returned a registry that lacks the built-in id lopr
C5_Witness ==
    /\ pc = "done" /\ call.op = "default_profiles"
    /\ ~NoValidFile
    /\ DictKeys(result.value) = {"custom"}

(***************************************************************************)
(* Properties of reconciliation and of the launcher                        *)
(***************************************************************************)
Reconciled == pc = "done" /\ call.op = "get_current_profile_from_instance"

\* the ids of the registry default_profiles builds from the directories
RegistryIds ==
    IF NoValidFile THEN BuiltinIds ELSE UNION {DefinedIds(d) : d \in {e \in Dirs : fs[e].exists}}

\* the modes of the profiles of that registry
RegistryModes ==
    IF NoValidFile THEN {BuiltinProfiles[i].value.modes : i \in 1..Len(BuiltinProfiles)}
    ELSE UNION {{ProfileOfFile(f).modes : f \in ValidFiles(d)} : d \in {e \in Dirs : fs[e].exists}}

\* the instance runs on a directory whose settings.json apply_mode_configuration
\* wrote completely
WrittenByApply(k) ==
    /\ call.arg.user_data_dir = <<TempPath(k)>>
    /\ tmp[k].applied # <<>>
    /\ tmp[k].settings = JsonObject(generate_mode_settings(tmp[k].applied[1]))

\* C6: round trip.  For a profile P (with at least one mode) of the registry,
\* the mapping extracted from the settings apply_mode_configuration(P) wrote
\* equals P.modes, and reconciliation returns the id of a profile whose modes
\* equal P.modes.
C6_RoundTrip ==
    Reconciled =>
        \A k \in {j \in 1..Len(tmp) : /\ WrittenByApply(j)
                                        /\ tmp[j].applied[1].modes # EmptyMap
                                        /\ tmp[j].applied[1].modes \in RegistryModes} :
               /\ result.outcome = "return"
               /\ locals.kilo_settings = tmp[k].applied[1].modes
               /\ result.value # {}
               /\ \A id \in result.value :
                      DictValue(locals.profiles, id).modes = tmp[k].applied[1].modes

\* kilo_settings and a profile's modes agree in every key and value
SameMapping(a, b) == DOMAIN a = DOMAIN b /\ \A m \in DOMAIN a : a[m] = b[m]

MatchingEntries == {i \in 1..Len(locals.profiles) :
                       SameMapping(locals.profiles[i].value.modes, locals.kilo_settings)}

\* C7: a profile id is returned only if that profile's modes equal the
\* extracted mapping in every key and value, and it is the first such profile
\* of the registry; no match is returned exactly when the extracted mapping is
\* empty or equals no profile's modes (a strict subset or superset is no match).
C7_ExactFirstMatch ==
    Reconciled /\ result.outcome = "return" =>
        /\ \A id \in result.value :
              \E i \in MatchingEntries :
                  /\ locals.profiles[i].key = id
                  /\ \A j \in MatchingEntries : i <= j
        /\ result.value = {} <=> (locals.kilo_settings = EmptyMap \/ MatchingEntries = {})
        /\ locals.kilo_settings # EmptyMap =>
              {locals.profiles[i].value.modes : i \in 1..Len(locals.profiles)} = RegistryModes

\* two profiles of the registry have the extracted modes and the first is returned
C7_Witness ==
    /\ Reconciled
    /\ Cardinality(MatchingEntries) = 2
    /\ result.value = {locals.profiles[1].key}

\* the extracted mapping is a strict subset of the modes of lopr: no match
C7_WitnessSubset ==
    /\ Reconciled
    /\ locals.kilo_settings = (<<"default">> :> "llama-4-maverick")
    /\ "lopr" \in DictKeys(locals.profiles)
    /\ DictValue(locals.profiles, "lopr").modes = ModesLoprTest
    /\ result.value = {}

\* C8: get_current_profile_from_instance raises nothing and returns no match
\* when the instance has no user_data_dir, no User/settings.json, a file that
\* cannot be read, a file that is no valid JSON, or JSON that is no object.
C8_NeverRaises ==
    (/\ Reconciled
     /\ \/ call.arg.user_data_dir = <<>>
        \/ call.arg.content.kind \in {"missing", "unreadable", "garbage", "empty", "partial", "array"})
    => result.outcome = "return" /\ result.value = {}

PreparedAndLaunched == pc = "done" /\ call.op = "prepare_and_launch"

\* C9: prepare_and_launch with an id that is not in the registry, the editor
\* being available, raises ValueError naming the id and listing exactly the
\* ids of the registry; no temporary directory is made, no settings file
\* written, the editor not launched.
C9_UnknownProfile ==
    PreparedAndLaunched /\ call.arg.code_on_path /\ call.arg.profile_name \notin RegistryIds =>
        /\ result.outcome = "raise"
        /\ result.exc = "ValueError"
        /\ result.value.requested = call.arg.profile_name
        /\ SeqRange(result.value.available) = RegistryIds
        /\ Len(result.value.available) = Cardinality(RegistryIds)
        /\ tmp = call.arg.tmp_before
        /\ launches = call.arg.launches_before

\* bogus was asked of the registry {lopr, copr}
C9_Witness ==
    /\ PreparedAndLaunched
    /\ call.arg.profile_name = "bogus"
    /\ RegistryIds = {"lopr", "copr"}
    /\ result.exc = "ValueError"
    /\ result.value.available = <<"copr", "lopr">>

\* C10: with no `code` on PATH prepare_and_launch raises RuntimeError, whether
\* or not the id is in the registry, and at no point of the call is a
\* temporary directory made, a settings file written or the editor launched.
C10_EditorMissing ==
    call.op = "prepare_and_launch" /\ ~call.arg.code_on_path =>
        /\ pc \in {"check_vscode", "done"}
        /\ pc = "done" => result.outcome = "raise" /\ result.exc = "RuntimeError"
        /\ tmp = call.arg.tmp_before
        /\ launches = call.arg.launches_before

\* the call has failed for an id that is in the registry
C10_Witness ==
    /\ PreparedAndLaunched
    /\ ~call.arg.code_on_path
    /\ call.arg.profile_name \in RegistryIds
    /\ result.exc = "RuntimeError"

\* the call is in, or past, the except clause of launcher.py line 47
LaunchRaised == call.op = "prepare_and_launch" /\ locals.launch_error # "none"

\* C11: when the launch raises after the configuration was applied,
\* prepare_and_launch first tries to remove the temporary directory that
\* apply_mode_configuration returned and only then raises the launch error
\* again: nothing is raised before shutil.rmtree has acted, the directory is
\* gone unless the removal itself failed, and the error that reaches the caller
\* is the launch error whether or not the removal failed.
C11_CleanupThenReraise ==
    LaunchRaised =>
        /\ pc \in {"cleanup", "reraise", "done"}
        /\ tmp[locals.temp_dir].settings_tmp = NoFile
        /\ launches[Len(launches)].cmd[3] = TempPath(locals.temp_dir)
        /\ pc = "cleanup" => result = NoResult /\ tmp[locals.temp_dir].rmtree = "none"
        /\ pc = "reraise" => result = NoResult
        /\ pc \in {"reraise", "done"} =>
              /\ tmp[locals.temp_dir].rmtree \in {"removed", "failed"}
              /\ tmp[locals.temp_dir].rmtree = "removed" => ~tmp[locals.temp_dir].exists
        /\ pc = "done" =>
              /\ result.outcome = "raise"
              /\ result.exc = locals.launch_error
              /\ result.exc \in LaunchErrors

\* the launch failed, the directory is removed and the launch error raised
C11_Witness ==
    /\ PreparedAndLaunched
    /\ LaunchRaised
    /\ ~tmp[locals.temp_dir].exists
    /\ result.exc = "Exception"

\* the launch failed, the removal failed too, and the launch error is raised
C11_WitnessRemovalFails ==
    /\ PreparedAndLaunched
    /\ LaunchRaised
    /\ tmp[locals.temp_dir].rmtree = "failed"
    /\ tmp[locals.temp_dir].exists
    /\ result.exc = "FileNotFoundError"

\* the complete settings file of the profile applied to directory k
CompleteSettings(k) == JsonObject(generate_mode_settings(tmp[k].applied[1]))

\* C12: at every point of apply_mode_configuration, and after it,
\* <tempdir>/User/settings.json either does not exist or holds the complete
\* generated settings; empty or partial content is only ever in settings.tmp,
\* and settings.json comes to exist in one step only, the rename of a completely
\* written settings.tmp, which leaves no settings.tmp behind.
C12_NeverPartial ==
    /\ [](\A k \in 1..Len(tmp) :
            /\ tmp[k].settings \in {NoFile, CompleteSettings(k)}
            /\ tmp[k].settings # NoFile => tmp[k].user_dir /\ tmp[k].settings_tmp = NoFile
            /\ tmp[k].settings_tmp.kind \in {"empty", "partial"} =>
                  pc = "dump" /\ k = locals.temp_dir)
    /\ [][\A k \in 1..Len(tmp) :
            tmp[k].settings # tmp'[k].settings /\ tmp'[k].settings # NoFile =>
                /\ pc = "replace"
                /\ tmp[k].settings_tmp = CompleteSettings(k)
                /\ tmp'[k].settings = tmp[k].settings_tmp
                /\ tmp'[k].settings_tmp = NoFile]_vars

\* json.dump is half way: settings.tmp holds a prefix, settings.json is not there
C12_Witness ==
    /\ pc = "dump"
    /\ tmp[locals.temp_dir].settings_tmp = PartialJson(generate_mode_settings(locals.profile[1]))
    /\ tmp[locals.temp_dir].settings = NoFile

\* the rename has happened for the test profile lopr
C12_WitnessRenamed ==
    /\ pc = "launch"
    /\ tmp[locals.temp_dir].settings = JsonObject(SettingsLoprTest)
    /\ tmp[locals.temp_dir].settings_tmp = NoFile

\* `settings` has one entry per mode of `modes` and no other: the key
\* kilo-code.<m>.model holds modes[m]
OneEntryPerMode(settings, modes) ==
    /\ \A m \in DOMAIN modes :
          /\ <<"kilo-code", ".">> \o m \o <<".", "model">> \in DOMAIN settings
          /\ settings[<<"kilo-code", ".">> \o m \o <<".", "model">>] = modes[m]
    /\ \A k \in DOMAIN settings : \E m \in DOMAIN modes : k = <<"kilo-code", ".">> \o m \o <<".", "model">>
    /\ Cardinality(DOMAIN settings) = Cardinality(DOMAIN modes)

\* C13: the mapping generate_mode_settings(P) returns has exactly one entry per
\* mode of P, kilo-code.<m>.model holding P.modes[m], and no other entry (for
\* the modes default and orchestrator of lopr exactly the two entries of the
\* scenario); the settings.json apply_mode_configuration(P) writes holds
\* exactly this mapping.
C13_OneEntryPerMode ==
    \A k \in 1..Len(tmp) :
        LET P == tmp[k].applied[1]
        IN /\ (call.op = "prepare_and_launch" /\ locals.temp_dir = k
               /\ pc \in {"open_tmp", "dump", "replace", "launch"}) =>
                  /\ OneEntryPerMode(locals.settings, P.modes)
                  /\ P.modes = ModesLoprTest =>
                        locals.settings =
                            (<<"kilo-code", ".", "default", ".", "model">> :> "llama-4-maverick")
                            @@ (<<"kilo-code", ".", "orchestrator", ".", "model">> :> "deepseek-v3.2-exp")
           /\ tmp[k].settings # NoFile =>
                  /\ tmp[k].settings.kind = "object"
                  /\ OneEntryPerMode(tmp[k].settings.members, P.modes)
                  /\ (call.op = "prepare_and_launch" /\ locals.temp_dir = k) =>
                        tmp[k].settings.members = locals.settings

\* the settings.json of the scenario profile lopr has been written
C13_Witness ==
    /\ pc = "launch"
    /\ locals.profile[1].id = "lopr"
    /\ locals.profile[1].modes = ModesLoprTest
    /\ DOMAIN tmp[locals.temp_dir].settings.members =
          {<<"kilo-code", ".", "default", ".", "model">>, <<"kilo-code", ".", "orchestrator", ".", "model">>}

\* the settings.json of a built-in profile, seven modes, has been written
C13_WitnessSevenModes ==
    /\ pc = "launch"
    /\ Cardinality(DOMAIN locals.profile[1].modes) = 7
    /\ Cardinality(DOMAIN tmp[locals.temp_dir].settings.members) = 7

(***************************************************************************)
(* Properties of instance detection                                        *)
(***************************************************************************)
\* the loop of detect_vscode_instances has inspected at least one process
Inspected == call.op = "detect_vscode_instances" /\ call.arg.proc # <<>>

\* the argument vector of the process inspected last ([] when withheld)
LastCmdline == IF call.arg.proc[1].cmdline = <<>> THEN <<>> ELSE call.arg.proc[1].cmdline[1]

\* the instances reported for the process inspected last
InstancesOfLast == {i \in 1..Len(locals.instances) : locals.instances[i].pid = call.arg.proc[1].pid}

\* the values that follow a --user-data-dir in the argument vector
ValuesAfterFlag(cmdline) ==
    {cmdline[i + 1] : i \in {j \in 1..(Len(cmdline) - 1) : cmdline[j] = "--user-data-dir"}}

\* C14: a process is in the result of detect_vscode_instances if and only if
\* its name is code or Code, its argument vector holds --user-data-dir followed
\* by a (non-empty) value and <user_data_dir>/extensions/kilocode.kilo-code
\* exists; every instance has has_kilo true, a non-empty user_data_dir that
\* follows a --user-data-dir of its process, and that process's pid; a process
\* gives at most one instance.
C14_IncludedIff ==
    Inspected /\ result.outcome # "raise" =>
        /\ InstancesOfLast # {} <=>
              /\ call.arg.proc[1].name \in {<<"code">>, <<"Code">>}
              /\ ValuesAfterFlag(LastCmdline) \ {""} # {}
              /\ call.arg.proc[1].ext = "present"
        /\ Cardinality(InstancesOfLast) <= 1
        /\ \A i \in InstancesOfLast :
              locals.instances[i].user_data_dir \in ValuesAfterFlag(LastCmdline)
        /\ \A i \in 1..Len(locals.instances) :
              /\ locals.instances[i].has_kilo
              /\ locals.instances[i].user_data_dir # ""
              /\ locals.instances[i].pid \in 1000..(1000 + locals.inspected - 1)
              /\ \A j \in 1..Len(locals.instances) :
                    locals.instances[i].pid = locals.instances[j].pid => i = j
        /\ pc = "done" => result.value = locals.instances

\* test_detect_instances_with_kilo: the one instance is returned
C14_Witness ==
    /\ pc = "done"
    /\ Inspected
    /\ result.outcome = "return"
    /\ call.arg.proc[1].cmdline = <<<<"code", "--user-data-dir", "/tmp/user-data", "/path/to/workspace">>>>
    /\ result.value = <<[workspace |-> <<"/path/to/workspace">>, user_data_dir |-> "/tmp/user-data",
                         has_kilo |-> TRUE, pid |-> 1000]>>

\* test_detect_instances_without_kilo: an editor with a user data directory and
\* no extension directory is left out
C14_WitnessWithoutKilo ==
    /\ pc = "done"
    /\ Inspected
    /\ call.arg.proc[1].name = <<"code">>
    /\ call.arg.proc[1].cmdline = <<<<"code", "--user-data-dir", "/tmp/user-data">>>>
    /\ call.arg.proc[1].ext = "absent"
    /\ result.outcome = "return"
    /\ result.value = <<>>

\* the positions of the argument vector, the program name (position 1) aside,
\* that hold neither a flag nor the value following --user-data-dir
WorkspacePositions(cmdline) ==
    {j \in 2..Len(cmdline) : cmdline[j] \notin Flags /\ cmdline[j - 1] # "--user-data-dir"}

\* the workspace the description gives: the first such element, if any
FirstNonFlag(cmdline) ==
    IF WorkspacePositions(cmdline) = {} THEN <<>>
    ELSE <<cmdline[CHOOSE j \in WorkspacePositions(cmdline) : \A k \in WorkspacePositions(cmdline) : j <= k]>>

\* C15: the workspace reported for an editor process is the first element of
\* its argument vector that is neither the program name nor a flag, and is
\* absent when there is no such element; the value following --user-data-dir is
\* reported as user_data_dir and never as the workspace.  (Stated for argument
\* vectors in which nothing but the program is called code.)
C15_WorkspaceIsFirstNonFlag ==
    Inspected /\ (\A j \in 2..Len(LastCmdline) : LastCmdline[j] # "code") =>
        \A i \in InstancesOfLast :
            /\ locals.instances[i].workspace = FirstNonFlag(LastCmdline)
            /\ locals.instances[i].user_data_dir \in ValuesAfterFlag(LastCmdline)

\* the process is gone or may not be read, or the system gave no name for it
ProcessUnreadable(p) == p.raises \in {"NoSuchProcess", "AccessDenied"} \/ (p.raises = "none" /\ p.name = <<>>)

\* C16: a process that has vanished or may not be read when the loop inspects
\* it (NoSuchProcess, AccessDenied, or no process info) is skipped: it gives no
\* instance and no error of it reaches the caller (the only error that can
\* leave the call comes from looking for the extension directory of a process
\* that was read), and the processes after it are inspected and reported as if
\* it had not been there.
C16_VanishedSkipped ==
    Inspected =>
        /\ ProcessUnreadable(call.arg.proc[1]) =>
              /\ result.outcome # "raise"
              /\ InstancesOfLast = {}
              /\ pc = "done" => result.value = locals.instances
        /\ result.outcome = "raise" =>
              /\ result.exc = "PermissionError"
              /\ call.arg.proc[1].raises = "none"
              /\ call.arg.proc[1].ext = "denied"
        /\ \A i \in 1..Len(call.arg.seen) :
              call.arg.seen[i].raises # "none" =>
                  /\ \A j \in 1..Len(locals.instances) : locals.instances[j].pid # call.arg.seen[i].pid
                  /\ (/\ call.arg.proc[1].name \in {<<"code">>, <<"Code">>}
                      /\ ValuesAfterFlag(LastCmdline) \ {""} # {}
                      /\ call.arg.proc[1].ext = "present") => InstancesOfLast # {}

\* the first process raised AccessDenied and the editor after it is returned
C16_Witness ==
    /\ pc = "done"
    /\ Inspected
    /\ call.arg.seen = <<[pid |-> 1000, raises |-> "AccessDenied"]>>
    /\ result.outcome = "return"
    /\ Len(result.value) = 1
    /\ result.value[1].pid = 1001

\* the last process had vanished and nothing is returned for it
C16_WitnessVanished ==
    /\ pc = "done"
    /\ Inspected
    /\ call.arg.proc[1].raises = "NoSuchProcess"
    /\ result.outcome = "return"

(***************************************************************************)
(* Properties of the launch                                                *)
(***************************************************************************)
\* an optional argument is given: neither None nor the empty string
Given(x) == x # <<>> /\ x[1] # ""

\* code --user-data-dir <path> [--extensions-dir <path>] [<workspace>]
DocumentedCommand(user_data_dir, workspace, extensions_dir) ==
    CASE Given(extensions_dir) /\ Given(workspace) ->
            <<"code", "--user-data-dir", user_data_dir, "--extensions-dir", extensions_dir[1], workspace[1]>>
      [] Given(extensions_dir) /\ ~Given(workspace) ->
            <<"code", "--user-data-dir", user_data_dir, "--extensions-dir", extensions_dir[1]>>
      [] ~Given(extensions_dir) /\ Given(workspace) ->
            <<"code", "--user-data-dir", user_data_dir, workspace[1]>>
      [] OTHER -> <<"code", "--user-data-dir", user_data_dir>>

LastLaunch == launches[Len(launches)]

\* C17: the editor is invoked as code --user-data-dir <path>, then
\* --extensions-dir <path> only when an extensions directory is given, then the
\* workspace only when a workspace is given, and the exit code of that call
\* is returned unchanged, zero or not; prepare_and_launch passes the directory
\* apply_mode_configuration made, no extensions directory and its own
\* workspace, and returns the exit code of launch_vscode_with_profile.
C17_LaunchCommand ==
    /\ (pc = "done" /\ call.op = "launch_vscode_with_profile") =>
          /\ Len(launches) > 0
          /\ LastLaunch.cmd = DocumentedCommand(call.arg.user_data_dir, call.arg.workspace,
                                                call.arg.extensions_dir)
          /\ LastLaunch.exit # <<>> => result = Returned(LastLaunch.exit[1])
          /\ LastLaunch.exit = <<>> => result.outcome = "raise"
    /\ (call.op = "prepare_and_launch" /\ Len(launches) > Len(call.arg.launches_before)) =>
          /\ Len(launches) = Len(call.arg.launches_before) + 1
          /\ tmp[locals.temp_dir].applied = locals.profile
          /\ LastLaunch.cmd = DocumentedCommand(TempPath(locals.temp_dir), call.arg.workspace, <<>>)
          /\ LastLaunch.exit # <<>> => pc = "done" /\ result = Returned(LastLaunch.exit[1])
          /\ LastLaunch.exit = <<>> => pc \in {"cleanup", "reraise", "done"} /\ result.outcome # "return"

\* test_prepare_and_launch_success with the editor ending in exit code 1
C17_Witness ==
    /\ PreparedAndLaunched
    /\ call.arg.workspace = <<"/path/to/workspace">>
    /\ result.outcome = "return"
    /\ LastLaunch.cmd = <<"code", "--user-data-dir", TempPath(1), "/path/to/workspace">>
    /\ result = Returned(1)

\* launch_vscode_with_profile with an extensions directory and a workspace
C17_WitnessExtensionsDir ==
    /\ pc = "done"
    /\ call.op = "launch_vscode_with_profile"
    /\ LastLaunch.cmd = <<"code", "--user-data-dir", OtherPath, "--extensions-dir",
                          "/path/to/extensions", "/path/to/workspace">>
    /\ result = Returned(0)

(***************************************************************************)
(* Properties of registry freshness                                        *)
(***************************************************************************)
\* the existing directory scanned last (env, cwd, home is the order of the
\* scan) among those that define id now
ScannedLast(id) ==
    CHOOSE d \in {e \in Dirs : fs[e].exists /\ id \in DefinedIds(e)} :
        \A e \in {x \in Dirs : fs[x].exists /\ id \in DefinedIds(x)} :
            DocumentedRank(e) <= DocumentedRank(d)

\* `registry` is what the candidate directories hold now: its ids are those
\* the valid files define, each with a definition of the last candidate that
\* defines it, or it is the built-in table when no valid file exists
IsCurrentRegistry(registry) ==
    /\ DictKeys(registry) = RegistryIds
    /\ Len(registry) = Cardinality(RegistryIds)
    /\ IF NoValidFile THEN registry = BuiltinProfiles
       ELSE \A i \in 1..Len(registry) :
               registry[i].value \in DefinitionsIn(ScannedLast(registry[i].key), registry[i].key)

\* C18: every call of default_profiles builds the registry from the candidate
\* directories as they are at that call: whatever files were added, changed or
\* removed since the program started or since an earlier call, the result is
\* the registry of the present contents; prepare_and_launch and
\* get_current_profile_from_instance resolve against that same present
\* registry.
C18_RegistryFresh ==
    /\ (pc = "done" /\ call.op = "default_profiles") =>
          result.outcome = "return" /\ IsCurrentRegistry(result.value)
    /\ (pc = "done" /\ call.op = "get_current_profile_from_instance"
        /\ locals.kilo_settings # EmptyMap) =>
          IsCurrentRegistry(locals.profiles)
    /\ (pc = "done" /\ call.op = "prepare_and_launch" /\ call.arg.code_on_path) =>
          /\ IsCurrentRegistry(locals.profiles)
          /\ result.exc = "ValueError" => SeqRange(result.value.available) = RegistryIds

\* a file was written since the start and default_profiles returns its profile
\* in place of the built-in table
C18_Witness ==
    /\ pc = "done"
    /\ call.op = "default_profiles"
    /\ fs["cwd"].files = {File("custom", "yml", DocDotted)}
    /\ DictKeys(result.value) = {"dotted"}

\* prepare_and_launch lists the ids of the files written since the start
C18_WitnessLookup ==
    /\ pc = "done"
    /\ call.op = "prepare_and_launch"
    /\ fs["cwd"].files = {File("lopr", "yml", DocNoMode), File("custom", "yml", DocDotted)}
    /\ result.exc = "ValueError"
    /\ result.value.available = <<"dotted", "nomode">>

\* reconciliation finds a profile of a file written since the start
C18_WitnessReconcile ==
    /\ Reconciled
    /\ call.arg.content = JsonObject(SettingsLoprTest)
    /\ fs["cwd"].files = {File("custom", "yml", DocCopr)}
    /\ result.outcome = "return"
    /\ result.value = {"copr"}

(***************************************************************************)
(* Properties of the candidate list and of the loaded profiles             *)
(***************************************************************************)
\* the directories of `candidates` are distinct and in the order environment
\* directory, <cwd>/profiles, ~/.kilomoco/profiles
InDocumentedOrder(candidates) ==
    \A i, j \in 1..Len(candidates) :
        i < j => DocumentedRank(candidates[i]) < DocumentedRank(candidates[j])

\* C19: profiles_dir_candidates returns the directory KILOMOCO_PROFILES_DIR
\* names, <cwd>/profiles and ~/.kilomoco/profiles, each exactly if it exists,
\* in this relative order whichever of them exist; a missing directory is left
\* out without an error, and discover_profiles visits the directories in that
\* order.
C19_CandidatesInOrder ==
    /\ (pc = "done" /\ call.op = "profiles_dir_candidates") =>
          /\ result.outcome = "return"
          /\ SeqRange(result.value) = {d \in Dirs : fs[d].exists}
          /\ InDocumentedOrder(result.value)
    /\ (pc = "done" /\ call.op \in {"discover_profiles", "default_profiles"}) =>
          /\ Candidates = {d \in Dirs : fs[d].exists}
          /\ InDocumentedOrder([i \in 1..Len(locals.loaded) |-> locals.loaded[i].dir])

\* all three directories exist
C19_Witness ==
    /\ pc = "done"
    /\ call.op = "profiles_dir_candidates"
    /\ result.value = <<"env", "cwd", "home">>

\* test_profiles_dir_candidates: no <cwd>/profiles
C19_WitnessNoCwd ==
    /\ pc = "done"
    /\ call.op = "profiles_dir_candidates"
    /\ ~fs["cwd"].exists
    /\ result.value = <<"env", "home">>

\* the profile the description derives from a valid file
Derived(file) ==
    LET data == file.doc.data
        id == IF "id" \in DOMAIN data THEN data["id"] ELSE file.stem
    IN [id |-> id,
        name |-> IF "name" \in DOMAIN data THEN data["name"] ELSE id,
        description |-> IF "description" \in DOMAIN data THEN data["description"] ELSE "",
        modes |-> data["modes"].map]

\* C20: for every valid document load_profiles_from_dir produces a profile
\* whose id is the document's id field, or the file name without extension
\* when there is none, whose name is the name field, or that id, whose
\* description is the description field, or the empty string, and whose modes
\* are the document's modes unchanged; the registry holds nothing else, and
\* each id maps to the profile of a valid file with that id.
C20_DerivedFields ==
    (pc = "done" /\ call.op = "load_profiles_from_dir") =>
        /\ result.outcome = "return"
        /\ \A f \in ValidFiles(call.arg) : Derived(f).id \in DictKeys(result.value)
        /\ \A i \in 1..Len(result.value) :
              /\ result.value[i].value \in {Derived(f) : f \in ValidFiles(call.arg)}
              /\ result.value[i].key = result.value[i].value.id
        /\ \A f \in ValidFiles(call.arg) :
              (\A g \in ValidFiles(call.arg) : Derived(g).id = Derived(f).id => g = f) =>
                  DictValue(result.value, Derived(f).id) = Derived(f)

\* a document with modes only, in custom.yml: id and name custom, no description
C20_Witness ==
    /\ pc = "done"
    /\ call.op = "load_profiles_from_dir"
    /\ File("custom", "yml", DocModesOnly) \in fs[call.arg].files
    /\ DictValue(result.value, "custom") =
          [id |-> "custom", name |-> "custom", description |-> "", modes |-> ModesValidModel]

\* test_load_profiles_from_dir_success: all four fields from the document, in a
\* file with another name
C20_WitnessAllFields ==
    /\ pc = "done"
    /\ call.op = "load_profiles_from_dir"
    /\ fs[call.arg].files = {File("custom", "yml", DocLopr)}
    /\ result.value = <<[key |-> "lopr",
                         value |-> [id |-> "lopr", name |-> "Low-Price (Economy)",
                                    description |-> "Budget-friendly...", modes |-> ModesLoprTest]]>>

(***************************************************************************)
(* Properties of the callers                                               *)
(***************************************************************************)
\* main was called with --profile <id> and without --list, and has ended
MainWithProfile ==
    /\ pc = "returned"
    /\ call.op = "main"
    /\ ~call.arg.args.list
    /\ Truthy(call.arg.args.profile)

\* C21: main called with --profile <id> and without --list calls
\* prepare_and_launch(<id>, workspace) once and returns its exit code; when
\* prepare_and_launch raises ValueError or RuntimeError, main does not raise
\* but prints `Error: <message>` to stderr and returns 1.
C21_MainLaunches ==
    MainWithProfile =>
        /\ call.arg.inner.outcome # "none"
        /\ call.arg.profile_name = call.arg.args.profile[1]
        /\ call.arg.inner.outcome = "return" =>
              result = Returned(Exit(call.arg.inner.value, <<>>, <<>>))
        /\ call.arg.inner.exc \in {"ValueError", "RuntimeError"} =>
              /\ result.outcome = "return"
              /\ result.value.rc = 1
              /\ Len(result.value.err) = 1
              /\ result.value.err[1].text = "Error:"

(***************************************************************************)
(* Properties of the extraction of settings                                *)
(***************************************************************************)
\* the key is kilo-code.<mode>.model: three segments
ExactShape(key) ==
    /\ Len(key) = 5
    /\ key[1] = "kilo-code"
    /\ key[2] = Dot
    /\ key[3] # Dot
    /\ key[4] = Dot
    /\ key[5] = "model"

\* C22: the mapping that reconciliation extracts is built only from the
\* settings keys of the exact shape kilo-code.<mode>.model, each giving
\* <mode> its value; a key of any other shape gives no entry.
C22_ExactShapeOnly ==
    (Reconciled /\ locals.settings # EmptyMap) =>
        LET exact == {k \in DOMAIN locals.settings : ExactShape(k)}
        IN /\ DOMAIN locals.kilo_settings = {<<k[3]>> : k \in exact}
           /\ \A k \in exact : locals.kilo_settings[<<k[3]>>] = locals.settings[k]

(***************************************************************************)
(* Properties of _write_json_atomically                                    *)
(***************************************************************************)
Written == pc = "done" /\ call.op = "_write_json_atomically"

\* C23: when writing or renaming fails in _write_json_atomically the error
\* reaches the caller, and by then settings.tmp has been removed and the
\* target holds exactly what it held before the call; after a successful
\* write no settings.tmp remains either, and the target holds the data.
C23_FailedWriteLeavesNothing ==
    Written =>
        /\ tmp[1].settings_tmp = NoFile
        /\ result.outcome = "raise" =>
              /\ result.exc = "OSError"
              /\ tmp[1].settings = call.arg.before
        /\ result.outcome = "return" => tmp[1].settings = JsonObject(call.arg.data)

\* writing failed half way over a target that held an older object
C23_Witness ==
    /\ Written
    /\ result.outcome = "raise"
    /\ call.arg.before = JsonObject(<<"key">> :> "old")
    /\ call.arg.data = SettingsLoprTest
    /\ tmp[1].settings = JsonObject(<<"key">> :> "old")

\* test_write_json_atomically_atomicity: written, and no .tmp file remains
C23_WitnessWritten ==
    /\ Written
    /\ result.outcome = "return"
    /\ call.arg.before = NoFile
    /\ tmp[1].settings = JsonObject(<<"key">> :> "value")
    /\ tmp[1].settings_tmp = NoFile

(***************************************************************************)
(* Determinism of profile resolution                                       *)
(***************************************************************************)
\* a registry as the mapping Python compares with ==: the order of insertion
\* plays no part
AsMapping(registry) == [id \in DictKeys(registry) |-> DictValue(registry, id)]

\* what the operation called returns when the files are listed as `listing`
ResolvedOver(listing) ==
    LET r == discover_profiles(fs, listing)
    IN IF call.op = "discover_profiles" THEN r.profiles ELSE default_profiles(r.profiles)

\* C24: the registry is a function of the contents of the candidate
\* directories alone: whatever order the files of a directory are listed in,
\* resolution returns the mapping it has returned, also when two files of one
\* directory declare the same id.
C24_SameRegistryInAnyOrder ==
    (ResolvedRegistry /\ result.outcome = "return") =>
        \A listing \in Listings(fs) : AsMapping(ResolvedOver(listing)) = AsMapping(result.value)

(***************************************************************************)
(* Well-formed registries                                                  *)
(***************************************************************************)
RegistryReturned ==
    /\ pc = "done"
    /\ call.op \in {"load_profiles_from_dir", "discover_profiles", "default_profiles"}
    /\ result.outcome = "return"

\* C25: in every registry that load_profiles_from_dir, discover_profiles or
\* default_profiles returns, each key is the id of the profile stored under
\* it, and no two profiles of the registry share an id.
C25_KeysAreIds ==
    RegistryReturned =>
        /\ \A i \in 1..Len(result.value) : result.value[i].key = result.value[i].value.id
        /\ \A i, j \in 1..Len(result.value) :
              result.value[i].value.id = result.value[j].value.id => i = j

\* two directories define lopr, and custom.yml of the later one defines it:
\* after the merge the registry holds one profile, under lopr
C25_Witness ==
    /\ RegistryReturned
    /\ call.op = "discover_profiles"
    /\ Len(locals.loaded) = 2
    /\ \A i \in 1..2 : "lopr" \in DictKeys(locals.loaded[i].profiles)
    /\ File("custom", "yml", DocLopr) \in fs[locals.loaded[2].dir].files
    /\ Len(result.value) = 1
    /\ result.value[1].key = "lopr"

\* the built-in table: eight profiles under their eight ids
C25_WitnessBuiltin ==
    /\ RegistryReturned
    /\ call.op = "default_profiles"
    /\ {result.value[i].value.id : i \in 1..Len(result.value)} = BuiltinIds
    /\ Len(result.value) = 8

\* one directory, two profiles under two ids
C25_WitnessTwoIds ==
    /\ RegistryReturned
    /\ call.op = "load_profiles_from_dir"
    /\ DictKeys(result.value) = {"lopr", "custom"}

(***************************************************************************)
(* Properties of MainScreen.launch_profile                                 *)
(***************************************************************************)
\* C26: launch_profile(id) calls prepare_and_launch(id) once, and when that
\* call raises, the error is raised to the caller of launch_profile.
C26_LaunchProfileRaises ==
    (pc = "returned" /\ call.op = "launch_profile") =>
        /\ call.arg.inner.outcome # "none"
        /\ call.arg.workspace = <<>>
        /\ call.arg.inner.outcome = "raise" => result = call.arg.inner

(***************************************************************************)
(* The order of the steps of prepare_and_launch                            *)
(***************************************************************************)
\* the four steps in their documented order; 5 is the except clause of the
\* launch, 6 the end of the call
StepRank(p) ==
    CASE p = "idle" -> 0
      [] p = "check_vscode" -> 1
      [] p = "get_profile" -> 2
      [] p \in {"mkdtemp", "mkdir_user", "open_tmp", "dump", "replace"} -> 3
      [] p = "launch" -> 4
      [] p \in {"cleanup", "reraise"} -> 5
      [] p = "done" -> 6

InPrepareAndLaunch == call.op = "prepare_and_launch"

\* settings.json of the directory of this call is completely written with the
\* settings of the profile the registry of this call holds under the id asked for
SelectedProfileWritten ==
    LET dir == tmp[locals.temp_dir]
        selected == DictValue(locals.profiles, call.arg.profile_name)
    IN /\ dir.exists
       /\ dir.user_dir
       /\ dir.settings.kind = "object"
       /\ OneEntryPerMode(dir.settings.members, selected.modes)
       /\ dir.settings_tmp = NoFile

\* C27: within one prepare_and_launch call the steps happen only in the order
\* availability check, profile lookup, configuration write, launch; the editor
\* is invoked at most once, and only after <tempdir>/User/settings.json has
\* been completely written with the settings of the selected profile; when a
\* step fails none of the later steps is executed.
C27_StepsInOrder ==
    /\ [](InPrepareAndLaunch =>
            /\ Len(launches) <= Len(call.arg.launches_before) + 1
            /\ StepRank(pc) <= 2 => tmp = call.arg.tmp_before
            /\ StepRank(pc) <= 4 => launches = call.arg.launches_before
            /\ (pc = "done" /\ result.outcome = "raise") =>
                  /\ result.exc \in {"RuntimeError", "ValueError"} => tmp = call.arg.tmp_before
                  /\ locals.launch_error = "none" => launches = call.arg.launches_before)
    /\ [][(InPrepareAndLaunch /\ call' = call) => StepRank(pc) <= StepRank(pc')]_vars
    /\ [][(InPrepareAndLaunch /\ launches' # launches) =>
            /\ pc = "launch"
            /\ SelectedProfileWritten
            /\ Len(launches') = Len(launches) + 1
            /\ launches'[Len(launches')].cmd[3] = TempPath(locals.temp_dir)]_vars
    /\ [][(InPrepareAndLaunch /\ pc = "done") => UNCHANGED <<tmp, launches>>]_vars

\* all four steps have happened for lopr and the editor has returned 0
C27_Witness ==
    /\ PreparedAndLaunched
    /\ call.arg.profile_name = "lopr"
    /\ result.outcome = "return"
    /\ result.value = 0
    /\ Len(launches) = Len(call.arg.launches_before) + 1
    /\ SelectedProfileWritten

\* the configuration write failed: a directory was made, the editor not invoked
C27_WitnessWriteFailed ==
    /\ PreparedAndLaunched
    /\ result.exc = "OSError"
    /\ tmp # call.arg.tmp_before
    /\ launches = call.arg.launches_before

(***************************************************************************)
(* The life of the temporary directory                                     *)
(***************************************************************************)
\* directory k is touched by a removal in this step
RemovalActs(k) ==
    \/ tmp[k].exists /\ ~tmp'[k].exists
    \/ tmp'[k].rmtree # tmp[k].rmtree
    \/ tmp[k].settings # NoFile /\ tmp'[k].settings = NoFile

\* C28: the directory made by apply_mode_configuration is removed by this
\* program in one situation only, the launch having raised; after the launch
\* has returned, with any exit code, it exists with its settings.json, and it
\* is not removed when apply_mode_configuration fails after making it.
C28_RemovedOnlyAfterFailedLaunch ==
    /\ [](PreparedAndLaunched =>
            /\ result.outcome = "return" =>
                  /\ result.value \in ExitCodes
                  /\ SelectedProfileWritten
                  /\ tmp[locals.temp_dir].rmtree = "none"
            /\ (result.outcome = "raise" /\ locals.launch_error = "none"
                   /\ tmp # call.arg.tmp_before) =>
                  /\ Len(tmp) = Len(call.arg.tmp_before) + 1
                  /\ tmp[Len(tmp)].exists
                  /\ tmp[Len(tmp)].rmtree = "none")
    /\ [][\A k \in 1..Len(tmp) :
            RemovalActs(k) =>
                /\ pc = "cleanup"
                /\ InPrepareAndLaunch
                /\ k = locals.temp_dir
                /\ locals.launch_error \in LaunchErrors
                /\ launches[Len(launches)] =
                      Launch(LaunchCommand(TempPath(k), call.arg.workspace, <<>>), <<>>)]_vars
    /\ [][Len(tmp') >= Len(tmp)]_vars

\* the editor returned exit code 1: the directory and its settings.json stay
C28_Witness ==
    /\ PreparedAndLaunched
    /\ result.outcome = "return"
    /\ result.value = 1
    /\ tmp[locals.temp_dir].exists
    /\ tmp[locals.temp_dir].settings = JsonObject(SettingsLoprTest)

\* apply_mode_configuration failed while writing: the directory stays
C28_WitnessApplyFailed ==
    /\ PreparedAndLaunched
    /\ result.exc = "OSError"
    /\ Len(tmp) = Len(call.arg.tmp_before) + 1
    /\ tmp[Len(tmp)].exists
    /\ tmp[Len(tmp)].user_dir
    /\ tmp[Len(tmp)].settings = NoFile

\* the launch raised and the directory is gone
C28_WitnessRemoved ==
    /\ PreparedAndLaunched
    /\ locals.launch_error = "Exception"
    /\ tmp[locals.temp_dir].rmtree = "removed"
    /\ ~tmp[locals.temp_dir].exists

====
